---------------------------- MODULE Spec2Model ----------------------------
(***************************************************************************)
(* A model of the OpenAudit freight audit core: the residential           *)
(* classifier, the late-delivery, duplicate-tracking and disputable-      *)
(* surcharge detectors of FreightAuditEngine (src/audit_engine.py), the   *)
(* orchestrator run_full_audit, and the filing-window classifier          *)
(* filter_by_filing_window (src/app.py).                                   *)
(*                                                                         *)
(* Conventions.  A table (DataFrame) is a sequence of rows; a row is a     *)
(* function from the column names of the table to cells.  A text cell is  *)
(* a string, NaN in a text column is the cell NaN.  Money is counted in   *)
(* mills (tenths of a cent) so that the fractions the rules apply (0.3,   *)
(* 0.4, ... 0.8) stay exact; weights in tenths of a pound, dimensions in  *)
(* whole inches.  Dates are day numbers (days since 1970-01-01); NaT is   *)
(* the number NaT.                                                         *)
(***************************************************************************)
EXTENDS Integers, Sequences, FiniteSets, TLC

VARIABLES
    df,               \* the input table handed to run_full_audit
    pc,               \* the position of the application: start, audited, raised,
                      \* actionable, filed
    residential_df,   \* rows routed to the residential review pool
    main_audit_df,    \* rows left for the three detectors
    parsed,           \* per main-pool row: the (label, canonical, amount) entries
    findings,         \* the findings list of run_full_audit
    summary,          \* the summary of the latest run that returned
    _class,           \* check_duplicate_tracking: df_work['_class'] per main-pool line
    emitted,          \* check_disputable_surcharges: its findings before consolidation
    misc_charges,     \* the misc outputs of the latest run
    runs,             \* per call that returned: its input, findings and summary, and
                      \* whether the misc detector raised
    actionable,       \* get_actionable_errors(findings)
    today,            \* pd.Timestamp.now().normalize() as a day number
    status,           \* filter_by_filing_window: _status per actionable row
    filing_summary    \* filter_by_filing_window: its summary dictionary

vars == <<df, pc, residential_df, main_audit_df, parsed, _class, emitted, findings,
          summary, misc_charges, runs, actionable, today, status, filing_summary>>

---------------------------------------------------------------------------
(* Text: Python str operations on TLC strings.                             *)

UpperChars == "ABCDEFGHIJKLMNOPQRSTUVWXYZ"
LowerChars == "abcdefghijklmnopqrstuvwxyz"
DigitChars == "0123456789"

CharAt(s, i) == SubSeq(s, i, i)

CharsOf(s) == {CharAt(s, i) : i \in 1..Len(s)}

\* the position of the one-character string c in s, 0 when absent
IndexOf(s, c) ==
    IF \E i \in 1..Len(s) : CharAt(s, i) = c
    THEN CHOOSE i \in 1..Len(s) : CharAt(s, i) = c /\ \A j \in 1..(i-1) : CharAt(s, j) # c
    ELSE 0

UpperSet == CharsOf(UpperChars)
LowerSet == CharsOf(LowerChars)
DigitSet == CharsOf(DigitChars)
WordSet  == UpperSet \cup LowerSet \cup DigitSet \cup {"_"}

\* the upper-case letter of every lower-case letter, and the reverse
ToUpper == [c \in LowerSet |-> CharAt(UpperChars, IndexOf(LowerChars, c))]
ToLower == [c \in UpperSet |-> CharAt(LowerChars, IndexOf(UpperChars, c))]

\* int(c) for a digit c
DigitOf == [c \in DigitSet |-> IndexOf(DigitChars, c) - 1]

UpperChar(c) == IF c \in LowerSet THEN ToUpper[c] ELSE c

LowerChar(c) == IF c \in UpperSet THEN ToLower[c] ELSE c

RECURSIVE Upper(_)
\* str.upper()
Upper(s) == IF s = "" THEN "" ELSE UpperChar(CharAt(s, 1)) \o Upper(Tail(s))

RECURSIVE Lower(_)
\* str.lower()
Lower(s) == IF s = "" THEN "" ELSE LowerChar(CharAt(s, 1)) \o Lower(Tail(s))

IsSpace(c) == c \in {" ", "\t"}

IsDigit(c) == c \in DigitSet

\* a regex word character [A-Za-z0-9_]
IsWordChar(c) == c \in WordSet

RECURSIVE LStrip(_)
LStrip(s) == IF s # "" /\ IsSpace(CharAt(s, 1)) THEN LStrip(Tail(s)) ELSE s

RECURSIVE RStrip(_)
RStrip(s) ==
    IF s # "" /\ IsSpace(CharAt(s, Len(s))) THEN RStrip(SubSeq(s, 1, Len(s) - 1)) ELSE s

\* str.strip()
Strip(s) == RStrip(LStrip(s))

\* sub occurs in s at position i
StartsAt(s, i, sub) ==
    /\ i >= 1
    /\ i + Len(sub) - 1 <= Len(s)
    /\ SubSeq(s, i, i + Len(sub) - 1) = sub

\* Python's  sub in s
Contains(s, sub) == \E i \in 1..(Len(s) + 1) : StartsAt(s, i, sub)

\* some string of the sequence subs occurs in s
ContainsAny(s, subs) == \E k \in 1..Len(subs) : Contains(s, subs[k])

\* str.startswith
StartsWith(s, sub) == StartsAt(s, 1, sub)

RECURSIVE RemoveChars(_, _)
\* s.replace(c, "") for every one-character string c of the set cs
RemoveChars(s, cs) ==
    IF s = "" THEN ""
    ELSE (IF CharAt(s, 1) \in cs THEN "" ELSE CharAt(s, 1)) \o RemoveChars(Tail(s), cs)

RECURSIVE ReplaceChar(_, _, _)
\* s.replace(a, b) for one-character strings a, b
ReplaceChar(s, a, b) ==
    IF s = "" THEN ""
    ELSE (IF CharAt(s, 1) = a THEN b ELSE CharAt(s, 1)) \o ReplaceChar(Tail(s), a, b)

---------------------------------------------------------------------------
(* Regular expressions (Python re) as syntax trees, matched by the set of  *)
(* end positions a pattern can reach from a start position.                *)

Lit(s)   == [t |-> "lit", s |-> s]
Cat(rs)  == [t |-> "cat", rs |-> rs]
Alt(rs)  == [t |-> "alt", rs |-> rs]
Opt(r)   == [t |-> "opt", r |-> r]
Star(r)  == [t |-> "star", r |-> r]
Class(s) == [t |-> "class", s |-> s]
Dot      == [t |-> "any"]
WordB    == [t |-> "wb"]
Ws       == Star(Class(" \t"))

\* \b at position i of u: exactly one side of the gap is a word character
AtWordBoundary(u, i) ==
    LET before == i > 1 /\ i - 1 <= Len(u) /\ IsWordChar(CharAt(u, i - 1))
        after  == i >= 1 /\ i <= Len(u) /\ IsWordChar(CharAt(u, i))
    IN  before # after

RECURSIVE MatchEnds(_, _, _)
RECURSIVE CatEnds(_, _, _, _)
RECURSIVE StarEnds(_, _, _, _)

\* the positions j such that r matches u[i .. j-1]
MatchEnds(r, u, i) ==
    CASE r.t = "lit"   -> IF StartsAt(u, i, r.s) THEN {i + Len(r.s)} ELSE {}
      [] r.t = "class" -> IF i <= Len(u) /\ CharAt(u, i) \in CharsOf(r.s) THEN {i + 1} ELSE {}
      [] r.t = "any"   -> IF i <= Len(u) THEN {i + 1} ELSE {}
      [] r.t = "wb"    -> IF AtWordBoundary(u, i) THEN {i} ELSE {}
      [] r.t = "opt"   -> {i} \cup MatchEnds(r.r, u, i)
      [] r.t = "alt"   -> UNION {MatchEnds(r.rs[k], u, i) : k \in 1..Len(r.rs)}
      [] r.t = "cat"   -> CatEnds(r.rs, 1, u, {i})
      [] r.t = "star"  -> StarEnds(r.r, u, {i}, {i})

CatEnds(rs, k, u, starts) ==
    IF k > Len(rs) \/ starts = {} THEN starts
    ELSE CatEnds(rs, k + 1, u, UNION {MatchEnds(rs[k], u, i) : i \in starts})

StarEnds(r, u, frontier, acc) ==
    LET new == (UNION {MatchEnds(r, u, i) : i \in frontier}) \ acc
    IN  IF new = {} THEN acc ELSE StarEnds(r, u, new, acc \cup new)

\* re.search(r, u) is not None
Search(r, u) == \E i \in 1..(Len(u) + 1) : MatchEnds(r, u, i) # {}

---------------------------------------------------------------------------
(* check_disputable_surcharges: canonicalization of surcharge labels.      *)

AddlHandling ==
    Cat(<<Lit("AD"), Opt(Alt(<<Cat(<<Lit("D"), Opt(Lit("'"))>>), Lit("DL")>>)),
          Opt(Lit("ITIONAL")), Ws, Lit("HANDLING")>>)

PatAddressCorrection == Cat(<<Lit("ADDRESS"), Ws, Lit("CORR")>>)

PatDasResidential ==
    Alt(<<Cat(<<Lit("DAS"), Star(Dot), Lit("RES"), Opt(Lit("IDENTIAL"))>>),
          Cat(<<Lit("DELIVERY"), Ws, Lit("AREA"), Star(Dot), Lit("RES"),
                Opt(Lit("IDENTIAL"))>>)>>)

PatResidential ==
    Alt(<<Cat(<<WordB, Lit("RES"), Alt(<<Lit(""), Lit("IDENTIAL")>>), WordB>>),
          Cat(<<Lit("RES"), Ws, Lit("SURCHARGE")>>)>>)

PatAhsPackaging ==
    Cat(<<AddlHandling, Star(Dot), Alt(<<Lit("PACKAGE"), Lit("PACKAGING")>>)>>)

PatDemandAdditionalHandling ==
    Cat(<<Lit("DEMAND"), Star(Dot), Lit("ADDITIONAL"), Star(Dot), Lit("HANDLING")>>)

PatAdditionalHandling ==
    Alt(<<AddlHandling, Lit("AHS"),
          Cat(<<Lit("NON"), Star(Class("- \t")), Lit("MACHINABLE")>>)>>)

PatDemandOversize == Cat(<<Lit("DEMAND"), Star(Dot), Lit("OVERSIZE")>>)

PatOversize ==
    Alt(<<Lit("OVERSIZE"), Cat(<<Lit("OVER"), Ws, Lit("SIZE")>>),
          Cat(<<Lit("LARGE"), Ws, Lit("PACKAGE")>>)>>)

PatPeakAdditionalHandling ==
    Cat(<<Lit("PEAK"), Ws, Lit("ADDITIONAL"), Ws, Lit("HANDLING")>>)

PatPeakOversize == Cat(<<Lit("PEAK"), Ws, Lit("OVERSIZE")>>)

PatPeakResidential == Cat(<<Lit("PEAK"), Ws, Lit("RESIDENTIAL")>>)

PatPeak == Cat(<<WordB, Lit("PEAK"), WordB>>)

\* the ordered list of (pattern, canonical label) pairs
CANON == <<
    <<PatAddressCorrection, "ADDRESS CORRECTION">>,
    <<PatDasResidential, "DAS RESIDENTIAL">>,
    <<PatResidential, "RESIDENTIAL SURCHARGE">>,
    <<Cat(<<Lit("SAT"), Opt(Lit("URDAY")), Ws, Lit("DEL"), Opt(Lit("IVERY"))>>),
      "SATURDAY DELIVERY">>,
    <<Cat(<<Lit("SAT"), Opt(Lit("URDAY")), Ws, Lit("PICKUP")>>), "SATURDAY PICKUP">>,
    <<Alt(<<Cat(<<Lit("SUNDAY"), Ws, Lit("DEL"), Opt(Lit("IVERY"))>>), Lit("WEEKEND")>>),
      "SUNDAY/WEEKEND CHARGE">>,
    <<Cat(<<Lit("RETURN"), Ws, Alt(<<Lit("FEE"), Lit("TO SHIPPER"), Lit("RTS")>>)>>),
      "RETURN FEE">>,
    <<Alt(<<Lit("REDIRECT"), Cat(<<Lit("DELIVERY"), Ws, Lit("CHANGE")>>),
            Cat(<<Lit("ADDRESS"), Ws, Lit("CHANGE")>>)>>),
      "REDIRECT DELIVERY FEE">>,
    <<Alt(<<Cat(<<Lit("HOLD"), Ws, Opt(Lit("AT")), Ws, Lit("LOCATION")>>),
            Cat(<<Lit("WILL"), Ws, Lit("CALL")>>)>>),
      "HOLD AT LOCATION FEE">>,
    <<Alt(<<Cat(<<Lit("DUPLICATE"), Ws, Lit("INVOICE")>>),
            Cat(<<Lit("INVALID"), Ws, Lit("ACCOUNT")>>),
            Cat(<<Lit("INCORRECT"), Ws, Lit("BILL"), Opt(Lit("ING"))>>),
            Lit("REBILL"),
            Cat(<<Lit("MANUAL"), Ws, Lit("PROCESS")>>)>>),
      "BILLING ERROR FEE">>,
    <<PatAhsPackaging, "AHS PACKAGING">>,
    <<PatDemandAdditionalHandling, "DEMAND ADDITIONAL HANDLING">>,
    <<PatAdditionalHandling, "ADDITIONAL HANDLING SURCHARGE">>,
    <<PatDemandOversize, "DEMAND OVERSIZE">>,
    <<PatOversize, "OVERSIZE CHARGE">>,
    <<Cat(<<Lit("UNAUTH"), Opt(Lit("ORIZED")), Ws, Lit("PACKAGE")>>),
      "UNAUTHORIZED PACKAGE CHARGE">>,
    <<PatPeakAdditionalHandling, "PEAK ADDITIONAL HANDLING">>,
    <<PatPeakOversize, "PEAK OVERSIZE">>,
    <<PatPeakResidential, "PEAK RESIDENTIAL">>,
    <<PatPeak, "PEAK SURCHARGE">>,
    <<Alt(<<Cat(<<Lit("MONEY"), Star(Class("- \t")), Lit("BACK")>>),
            Cat(<<Lit("LATE"), Ws, Lit("DELIVERY")>>),
            Cat(<<Lit("SERVICE"), Ws, Lit("FAILURE")>>),
            Cat(<<Lit("TRANSIT"), Ws, Lit("TIME")>>),
            Cat(<<Lit("DELIVERY"), Ws, Lit("EXCEPTION")>>)>>),
      "SERVICE FAILURE ADJUSTMENT">>,
    <<Cat(<<Lit("WEIGHT"), Ws, Lit("CORRECTION")>>), "WEIGHT CORRECTION">>,
    <<Alt(<<Cat(<<Lit("DIM"), Opt(Lit("ENSIONAL")), Ws, Lit("WEIGHT")>>),
            Cat(<<Lit("CUBIC"), Ws, Lit("VOLUME")>>)>>),
      "DIM WEIGHT ADJUSTMENT">>,
    <<Lit("OVERWEIGHT"), "OVERWEIGHT CHARGE">>,
    <<Alt(<<Lit("BROKERAGE"),
            Cat(<<Lit("DUTY"), Ws, Lit("AND"), Ws, Lit("TAX")>>),
            Cat(<<Lit("ENTRY"), Ws, Lit("PREPARATION")>>),
            Cat(<<Lit("CLEARANCE"), Ws, Lit("ENTRY")>>),
            Cat(<<Lit("IMPORT"), Ws, Lit("DATA"), Ws, Lit("CORRECTION")>>)>>),
      "CUSTOMS/BROKERAGE FEE">>,
    <<Alt(<<Cat(<<Lit("INVALID"), Ws, Lit("PICKUP")>>),
            Cat(<<Lit("ATTEMPTED"), Ws, Lit("DELIVERY")>>),
            Lit("UNDELIVERABLE"),
            Cat(<<Lit("DELIVERY"), Ws, Lit("ATTEMPT")>>)>>),
      "FAILED PICKUP/DELIVERY FEE">>,
    <<Alt(<<Lit("FUEL"), Cat(<<Lit("FUEL"), Ws, Lit("SURCHARGE")>>), Lit("FSC")>>),
      "FUEL SURCHARGE">>,
    <<Alt(<<Cat(<<Lit("DECLARED"), Ws, Lit("VALUE")>>),
            Cat(<<Lit("DV"), Ws, Lit("CHARGE")>>), Lit("INSURANCE")>>),
      "DECLARED VALUE CHARGE">>,
    <<Cat(<<Lit("MISSING"), Ws, Lit("DOC")>>), "MISSING DOCUMENTATION FEE">>
  >>

RECURSIVE MatchFrom(_, _, _)
\* the loop over the table from its k-th pair on: the name of the first pattern that
\* matches u, u itself when none does
MatchFrom(table, u, k) ==
    IF k > Len(table) THEN u
    ELSE IF Search(table[k][1], u) THEN table[k][2] ELSE MatchFrom(table, u, k + 1)

\* a variant of the loop in which a later match overrides an earlier one
LastMatch(table, u) ==
    LET hits == {k \in 1..Len(table) : Search(table[k][1], u)}
    IN  IF hits = {} THEN u ELSE table[CHOOSE k \in hits : \A j \in hits : j <= k][2]

\* the name of the first pattern of table that matches u, u itself when none does
FirstMatch(table, u) == MatchFrom(table, u, 1)

\* canonize(label)
canonize(label) == FirstMatch(CANON, Strip(Upper(label)))

---------------------------------------------------------------------------
(* Rows and the helper getters of FreightAuditEngine.                      *)

\* NaN in a text column (pandas reads an empty or NaN cell as NaN)
NaN == "NaN"

\* the columns whose cells are numbers: money in mills, inches, pounds
NumericCols == {
    "Total Charges", "Base Rate", "Billed Amount", "Net Charge Amount USD", "Net Charge",
    "Freight Charges", "Surcharges", "Duty and Tax", "Discount", "Declared Value",
    "Address Correction", "Residential Surcharge", "Delivery Area Surcharge",
    "Additional Charges", "Saturday Delivery", "Additional Handling", "Oversize Charge",
    "Overweight Charge", "Peak Surcharge", "Peak Additional Handling", "Peak Oversize",
    "Peak Residential", "Fuel Surcharge", "Declared Value Charge", "Weight Correction",
    "Length", "Width", "Height", "Actual Weight", "Billed Weight" }

\* the columns whose cells are dates (day numbers, or NaT)
DateCols == { "Shipment Date", "Shipment Date (mm/dd/yyyy)", "Delivery Date",
              "Shipment Delivery Date (mm/dd/yyyy)", "Actual Delivery Date",
              "Invoice Date" }

\* pd.NaT: a date cell that holds no date
NaT == 0 - 1

\* money: mills per dollar and per cent
Dollars(d) == d * 1000
Cents(c) == c * 10

RECURSIVE NatToStr(_)
\* str(n) for a natural number n
NatToStr(n) ==
    IF n < 10 THEN CharAt(DigitChars, n + 1)
    ELSE NatToStr(n \div 10) \o CharAt(DigitChars, (n % 10) + 1)

\* str(x) for the float x = m/1000 dollars with at most two decimals: 4.5, 40.0, 4.25
FloatStr(m) ==
    LET a == IF m < 0 THEN 0 - m ELSE m
        c == (a \div 10) % 100
        frac == IF c % 10 = 0 THEN NatToStr(c \div 10)
                ELSE NatToStr(c \div 10) \o NatToStr(c % 10)
    IN  (IF m < 0 THEN "-" ELSE "") \o NatToStr(a \div 1000) \o "." \o frac

\* f'{x:.2f}' for the amount of m mills (a whole number of cents)
Fmt2f(m) ==
    LET a == IF m < 0 THEN 0 - m ELSE m
        c == (a \div 10) % 100
    IN  (IF m < 0 THEN "-" ELSE "") \o NatToStr(a \div 1000) \o "."
        \o NatToStr(c \div 10) \o NatToStr(c % 10)

\* pd.notna(v) for the cell v of column c
NotNa(c, v) == IF c \in NumericCols THEN TRUE ELSE IF c \in DateCols THEN v # NaT ELSE v # NaN

\* str(v) for the cell v of column c (a date cell is only ever tested for NaT)
CellStr(c, v) ==
    IF c \in NumericCols THEN FloatStr(v)
    ELSE IF c \in DateCols THEN (IF v = NaT THEN "NaT" ELSE NatToStr(v))
    ELSE IF v = NaN THEN "nan" ELSE v

\* row.get(c, default)
Get(row, c, default) == IF c \in DOMAIN row THEN row[c] ELSE default

\* str(row.get(c, '')) of a text column
GetStr(row, c) == IF c \in DOMAIN row THEN CellStr(c, row[c]) ELSE ""

\* the candidates of cands that _get_first accepts: present, not NaN, not blank
Usable(row, cands) ==
    {k \in 1..Len(cands) :
        /\ cands[k] \in DOMAIN row
        /\ NotNa(cands[k], row[cands[k]])
        /\ Strip(CellStr(cands[k], row[cands[k]])) # ""}

\* the first usable candidate column, "" when there is none
FirstUsable(row, cands) ==
    IF Usable(row, cands) = {} THEN ""
    ELSE cands[CHOOSE k \in Usable(row, cands) : \A j \in Usable(row, cands) : k <= j]

\* str(_get_first(row, candidates, '') or '')
_get_text(row, cands) ==
    LET c == FirstUsable(row, cands) IN IF c = "" THEN "" ELSE CellStr(c, row[c])

\* _get_date: the first usable candidate parsed as a date, NaT when there is none
_get_date(row, cands) ==
    LET c == FirstUsable(row, cands) IN IF c = "" THEN NaT ELSE row[c]

\* _get_float_value: the first candidate column that is present and holds a number
_get_float_value(row, cands) ==
    LET ok == {k \in 1..Len(cands) : cands[k] \in DOMAIN row}
    IN  IF ok = {} THEN 0 ELSE row[cands[CHOOSE k \in ok : \A j \in ok : k <= j]]

\* _get_dimension: the first candidate column that is present and holds a value > 0
_get_dimension(row, cands) ==
    LET ok == {k \in 1..Len(cands) : cands[k] \in DOMAIN row /\ row[cands[k]] > 0}
    IN  IF ok = {} THEN 0 ELSE row[cands[CHOOSE k \in ok : \A j \in ok : k <= j]]

RECURSIVE JoinFields(_, _, _)
\* ' '.join of the stripped, non-empty str values of the listed fields, from the k-th on
JoinFields(row, fields, k) ==
    IF k > Len(fields) THEN ""
    ELSE LET f    == fields[k]
             val  == IF f \in DOMAIN row /\ NotNa(f, row[f]) THEN Strip(CellStr(f, row[f])) ELSE ""
             rest == JoinFields(row, fields, k + 1)
         IN  IF val = "" THEN rest ELSE IF rest = "" THEN val ELSE val \o " " \o rest

_get_full_destination_info(row) ==
    JoinFields(row, <<"Recipient Company Name", "Recipient Name", "Consignee",
                      "Recipient Address", "Destination Address",
                      "Recipient Original Address", "Recipient City",
                      "Recipient State/Province", "Recipient Postal Code">>, 1)

_get_full_shipper_info(row) ==
    JoinFields(row, <<"Shipper Company Name", "Shipper Name", "Shipper",
                      "Shipper Address", "Origin Address", "Ship From Address",
                      "Shipper City", "Shipper State", "Shipper Postal Code">>, 1)

\* _normalize_tracking
_normalize_tracking(x) == IF x = NaN THEN "" ELSE Upper(RemoveChars(Strip(x), {" ", "-"}))

---------------------------------------------------------------------------
(* The residential classifier.                                             *)

residential_patterns == <<
    "residential surcharge", "residential delivery",
    "delivery area surcharge - residential", "das - residential", "das residential",
    "home delivery", "address correction - residential", "residential area surcharge",
    "residential area" >>

business_indicators == <<
    "LLC", "INC", "CORP", "COMPANY", "BUSINESS", "OFFICE",
    "WAREHOUSE", "STORE", "SHOP", "CENTER", "DISTRIBUTION",
    "SEPHORA", "ULTA", "NORDSTROM", "BLOOMINGDALE", "MACY",
    "KOHLS", "TARGET", "MAC COSMETICS",
    "DIOR", "TOWER 28", "L'OREAL", "LOREAL",
    "MALL OF AMERICA", "VALLEY FAIR", "HOUSTON GALLERIA",
    "SANTA ANITA", "NORTH PARK", "CHESTNUT HILL", "CERRITOS",
    "CORAL GABLES", "DADELAND", "AVENTURA",
    "MILLSTREAM", "BELLEVUE", "BERKELEY",
    "WES HARNESS",
    "HUNTER PHILLIPS", "WILLIAM WESPY", "FAB SHIPPING", "JESSE MENG",
    "AMYCE STOD DARD", "MARK LOVELESS", "MKT ALLIANCE",
    "MARKETING ALLIANCE GROUP", "MARKETING ALLIANCE",
    "CREATIVE PLASTICS", "CREATIVE PLASTIC", "H & B",
    "251 GILLUM", "GILLUM DR", "GILLUM DRIVE", "GILLU I DRIVE",
    "1409 CORONET", "CORONET DR", "CORONET DRIVE" >>

business_abbrev == <<"NRD", "BLM">>

\* _has_business_indicators: substring match of the long indicators, whole-word
\* match of the short abbreviations
_has_business_indicators(dest_info) ==
    \/ \E k \in 1..Len(business_indicators) : Contains(dest_info, business_indicators[k])
    \/ \E k \in 1..Len(business_abbrev) :
          Search(Cat(<<WordB, Lit(business_abbrev[k]), WordB>>), dest_info)

surcharge_fields == <<
    "Surcharge_Details", "Service Description", "Service Type",
    "Charge Description", "Charge Type", "Net Charge Title",
    "Accessorial Charge", "Surcharge Description", "Surcharge Type",
    "Residential Surcharge", "Delivery Area Surcharge", "Additional Charges" >>

\* pattern.lower() of every residential pattern
patterns_lower == [j \in 1..Len(residential_patterns) |-> Lower(residential_patterns[j])]

\* the scan of detect_residential_surcharges: some residential pattern occurs,
\* case-insensitively, in the text of some scanned field of the row
has_residential(row) ==
    \E k \in 1..Len(surcharge_fields) :
        LET field == surcharge_fields[k] IN
        /\ field \in DOMAIN row
        /\ NotNa(field, row[field])
        /\ ContainsAny(Lower(CellStr(field, row[field])), patterns_lower)

\* a variant of the decision that routes a row only when both sides lack an indicator
is_residential_review_both_lack(row) ==
    /\ has_residential(row)
    /\ ~_has_business_indicators(Upper(_get_full_destination_info(row)))
    /\ ~_has_business_indicators(Upper(_get_full_shipper_info(row)))

\* the decision of detect_residential_surcharges for one row
is_residential_review(row) ==
    /\ has_residential(row)
    /\ \/ ~_has_business_indicators(Upper(_get_full_destination_info(row)))
       \/ ~_has_business_indicators(Upper(_get_full_shipper_info(row)))

\* the row of df_copy: the input row with the two columns the classifier adds
WithResidentialColumns(row) ==
    [c \in DOMAIN row \cup {"has_residential_surcharge", "residential_surcharge_sources"} |->
        IF c = "has_residential_surcharge" THEN is_residential_review(row)
        ELSE IF c = "residential_surcharge_sources"
             THEN (IF is_residential_review(row) THEN <<"Residential Delivery">> ELSE <<>>)
             ELSE row[c]]

\* detect_residential_surcharges
detect_residential_surcharges(t) == [i \in 1..Len(t) |-> WithResidentialColumns(t[i])]

IsResidentialRow(row) == row["has_residential_surcharge"]

IsMainRow(row) == ~row["has_residential_surcharge"]

---------------------------------------------------------------------------
(* Dates: a date is its day number, counted from 1970-01-01 (a Thursday).  *)

\* datetime.weekday(): Monday is 0, Sunday is 6
weekday(n) == (n + 3) % 7

\* the civil date <<year, month, day>> of day number n
CivilFromDays(n) ==
    LET z   == n + 719468
        era == z \div 146097
        doe == z - era * 146097
        yoe == (doe - doe \div 1460 + doe \div 36524 - doe \div 146096) \div 365
        doy == doe - (365 * yoe + yoe \div 4 - yoe \div 100)
        mp  == (5 * doy + 2) \div 153
        d   == doy - (153 * mp + 2) \div 5 + 1
        m   == IF mp < 10 THEN mp + 3 ELSE mp - 9
        y   == yoe + era * 400 + (IF m <= 2 THEN 1 ELSE 0)
    IN  <<y, m, d>>

\* the day number of the civil date y-m-d
DaysFromCivil(y, m, d) ==
    LET yy  == IF m <= 2 THEN y - 1 ELSE y
        era == yy \div 400
        yoe == yy - era * 400
        mp  == IF m > 2 THEN m - 3 ELSE m + 9
        doy == (153 * mp + 2) \div 5 + d - 1
        doe == yoe * 365 + yoe \div 4 - yoe \div 100 + doy
    IN  era * 146097 + doe - 719468

\* a decimal number padded with zeros to two digits
Pad2(n) == IF n < 10 THEN "0" \o NatToStr(n) ELSE NatToStr(n)

\* a year padded with zeros to four digits
Pad4(n) ==
    IF n < 10 THEN "000" \o NatToStr(n)
    ELSE IF n < 100 THEN "00" \o NatToStr(n)
    ELSE IF n < 1000 THEN "0" \o NatToStr(n)
    ELSE NatToStr(n)

\* the text of the civil date c
CivilText(c) == Pad4(c[1]) \o "-" \o Pad2(c[2]) \o "-" \o Pad2(c[3])

\* strftime('%Y%m%d'): the date without separators
strftime_compact(n) ==
    Pad4(CivilFromDays(n)[1]) \o Pad2(CivilFromDays(n)[2]) \o Pad2(CivilFromDays(n)[3])

\* strftime('%Y-%m-%d')
strftime(n) == CivilText(CivilFromDays(n))

\* strftime('%Y-%m-%d') if pd.notna(d) else ''
DateText(d) == IF d # NaT THEN strftime(d) ELSE ""

---------------------------------------------------------------------------
(* The late-delivery detector.                                             *)

fedex_guaranteed_service_codes == {"PO", "FO", "SO", "ES", "OA", "LO", "IP"}

\* the expected business days in transit, by service key
service_delivery_times == <<
    <<"FEDEX_2DAY", 2>>,
    <<"FEDEX_STANDARD_OVERNIGHT", 1>>,
    <<"FEDEX_PRIORITY_OVERNIGHT", 1>>,
    <<"FEDEX_INTERNATIONAL_PRIORITY", 1>>,
    <<"INTERNATIONAL_PRIORITY", 1>>,
    <<"FEDEX_FIRST_OVERNIGHT", 1>>,
    <<"FEDEX_INTL_PRIORITY_EXPRESS", 1>>,
    <<"UPS_NEXT_DAY_AIR", 1>>,
    <<"UPS_NEXT_DAY_AIR_SAVER", 1>>,
    <<"UPS_2ND_DAY_AIR", 2>> >>

\* a variant of the lookup that gives every listed service two business days
DeliveryTimeTwoDays(key) ==
    IF \E k \in 1..Len(service_delivery_times) : service_delivery_times[k][1] = key
    THEN 2 ELSE 0

\* dict.get(key): the days of the key, 0 standing for None
DeliveryTime(key) ==
    IF \E k \in 1..Len(service_delivery_times) : service_delivery_times[k][1] = key
    THEN service_delivery_times[
             CHOOSE k \in 1..Len(service_delivery_times) : service_delivery_times[k][1] = key][2]
    ELSE 0

\* the day reached from start_date after business_days days of the calendar
add_calendar_days(start_date, business_days) == start_date + business_days

RECURSIVE _add_business_days(_, _)
\* the day reached from start_date after business_days days that are not Sat/Sun
_add_business_days(start_date, business_days) ==
    IF business_days <= 0 THEN start_date
    ELSE LET next == start_date + 1
         IN  IF weekday(next) < 5
             THEN _add_business_days(next, business_days - 1)
             ELSE _add_business_days(next, business_days)

\* pd.to_datetime(row.get(a)) or pd.to_datetime(row.get(b)): an absent column
\* gives None, which is falsy; NaT in a present column is truthy and is kept
DateOr(row, a, b) ==
    IF a \in DOMAIN row THEN row[a] ELSE IF b \in DOMAIN row THEN row[b] ELSE NaT

\* expected_days of check_late_deliveries, 0 standing for None
expected_days(row) ==
    LET service_desc == ReplaceChar(Upper(GetStr(row, "Service Description")), " ", "_")
        service_type == ReplaceChar(Upper(GetStr(row, "Service Type")), " ", "_")
        carrier      == Upper(GetStr(row, "Carrier"))
    IN  IF DeliveryTime(service_desc) # 0 THEN DeliveryTime(service_desc)
        ELSE DeliveryTime(carrier \o "_" \o service_type)

\* the FedEx gate: a FedEx row is checked only for a guaranteed service code
passes_fedex_gate(row) ==
    Contains(Upper(GetStr(row, "Carrier")), "FEDEX")
        => Upper(Strip(GetStr(row, "Service Type"))) \in fedex_guaranteed_service_codes

\* the row is late: every guard of the loop body of check_late_deliveries passes
is_late(row) ==
    LET ship_date == DateOr(row, "Shipment Date", "Shipment Date (mm/dd/yyyy)")
        delivery_date == DateOr(row, "Delivery Date", "Shipment Delivery Date (mm/dd/yyyy)")
    IN  /\ passes_fedex_gate(row)
        /\ expected_days(row) # 0
        /\ ship_date # NaT
        /\ delivery_date # NaT
        /\ delivery_date > _add_business_days(ship_date, expected_days(row))

\* total_charges or base_rate or billed_amount
late_refund(row) ==
    LET total_charges == Get(row, "Total Charges", 0)
        base_rate     == Get(row, "Base Rate", 0)
        billed_amount == Get(row, "Billed Amount", 0)
    IN  IF total_charges # 0 THEN total_charges
        ELSE IF base_rate # 0 THEN base_rate ELSE billed_amount

\* the finding check_late_deliveries appends for a late row
late_finding(row) ==
    LET ship_date == DateOr(row, "Shipment Date", "Shipment Date (mm/dd/yyyy)")
        delivery_date == DateOr(row, "Delivery Date", "Shipment Delivery Date (mm/dd/yyyy)")
        expected_delivery == _add_business_days(ship_date, expected_days(row))
        days_late == delivery_date - expected_delivery
    IN  [ error_type      |-> "Late Delivery",
          tracking_number |-> Get(row, "Tracking Number", ""),
          date            |-> strftime(ship_date),
          carrier         |-> Get(row, "Carrier", ""),
          service_type    |-> Get(row, "Service Type", ""),
          dispute_reason  |-> "Package delivered " \o NatToStr(days_late) \o " day(s) late",
          refund_estimate |-> late_refund(row),
          notes           |-> "Expected: " \o strftime(expected_delivery)
                              \o ", Actual: " \o strftime(delivery_date) ]

RECURSIVE LateFrom(_, _)
LateFrom(t, k) ==
    IF k > Len(t) THEN <<>>
    ELSE (IF is_late(t[k]) THEN <<late_finding(t[k])>> ELSE <<>>) \o LateFrom(t, k + 1)

\* check_late_deliveries
check_late_deliveries(t) == LateFrom(t, 1)

---------------------------------------------------------------------------
(* The duplicate-tracking detector.                                        *)

RECURSIVE SumSeq(_)
SumSeq(s) == IF s = <<>> THEN 0 ELSE Head(s) + SumSeq(Tail(s))

RECURSIVE MaxSeq(_)
MaxSeq(s) ==
    IF Len(s) = 1 THEN s[1]
    ELSE LET m == MaxSeq(Tail(s)) IN IF s[1] >= m THEN s[1] ELSE m

Abs(x) == IF x < 0 THEN 0 - x ELSE x

\* the columns of a table
Columns(t) == IF Len(t) = 0 THEN {} ELSE DOMAIN t[1]

\* AMT_TOL = 0.01 dollars, in mills
AMT_TOL == 10

freight_candidates  == <<"Freight Charges", "Base Rate", "Freight", "Transportation Charge">>
misc_candidates     == <<"Surcharges", "Miscellaneous Charges", "Additional Charges", "Misc">>
duty_candidates     == <<"Duty and Tax", "Duty & Tax", "Duties", "Taxes", "Customs Charges">>
discount_candidates == <<"Discount", "Discounts", "Credit">>

HasAnyColumn(t, cands) == \E k \in 1..Len(cands) : cands[k] \in Columns(t)

\* the amounts of one line: _freight, _misc, _duty, _discount, _net
line_amounts(t, row) ==
    LET freight0 == _get_float_value(row, freight_candidates)
        misc     == _get_float_value(row, misc_candidates)
        duty     == _get_float_value(row, duty_candidates)
        discount == Abs(_get_float_value(row, discount_candidates))
        net      == Get(row, "Total Charges", 0)
        freight  == IF /\ ~HasAnyColumn(t, duty_candidates)
                       /\ ~HasAnyColumn(t, freight_candidates)
                       /\ freight0 = 0 /\ misc = 0 /\ duty = 0 /\ net > 0
                    THEN net ELSE freight0
    IN  [freight |-> freight, misc |-> misc, duty |-> duty, discount |-> discount,
         net |-> net]

\* a classification whose duty/tax test counts the discount with the freight and
\* takes positive duties only
classify_line_by_freight_like(a) ==
    IF a.freight + a.misc + a.discount > AMT_TOL /\ Abs(a.duty) < AMT_TOL THEN "TRANSPORT"
    ELSE IF a.duty > AMT_TOL /\ Abs(a.freight + a.misc + a.discount) < AMT_TOL
         THEN "DUTY_TAX"
    ELSE IF a.net < 0 - AMT_TOL THEN "CREDIT_ADJUST"
    ELSE "MISC"

\* _class: np.select takes the first condition that holds
classify_line(a) ==
    LET freight_like == a.freight + a.misc + a.discount
        is_transport == freight_like > AMT_TOL /\ Abs(a.duty) < AMT_TOL
        is_duty_tax  == Abs(a.duty) > AMT_TOL /\ (Abs(a.freight) + Abs(a.misc)) < AMT_TOL
        is_credit    == a.net < 0 - AMT_TOL
    IN  IF is_transport THEN "TRANSPORT"
        ELSE IF is_duty_tax THEN "DUTY_TAX"
        ELSE IF is_credit THEN "CREDIT_ADJUST"
        ELSE "MISC"

line_class(t, row) == classify_line(line_amounts(t, row))

\* df_work['_class'], which exists once the early return for an empty table or a table
\* without tracking numbers is passed
line_classes(t) ==
    IF t = <<>> \/ "Tracking Number" \notin Columns(t) THEN <<>>
    ELSE [i \in 1..Len(t) |-> line_class(t, t[i])]

\* _key_tracking of a line
key_tracking(row) == _normalize_tracking(row["Tracking Number"])

return_keywords == <<"RETURN", "RMGR", "RMA", "REVERSE", "RETURNMANAGER">>

\* _is_return_service of a service cell
_is_return_service(service_description) ==
    /\ service_description # NaN
    /\ service_description # ""
    /\ \E k \in 1..Len(return_keywords) : Contains(Upper(service_description), return_keywords[k])

service_col_candidates == <<"Service Description", "Service Type", "Service", "Svc Desc",
                            "Service Code", "Svc Type", "Svc Code">>

\* _is_original_plus_return_pair: two lines, of which exactly one is a return by the
\* first service column the table has
_is_original_plus_return_pair(duplicate_rows) ==
    LET have == {k \in 1..Len(service_col_candidates) :
                    service_col_candidates[k] \in Columns(duplicate_rows)}
        service_col == service_col_candidates[CHOOSE k \in have : \A j \in have : k <= j]
    IN  /\ Len(duplicate_rows) = 2
        /\ have # {}
        /\ _is_return_service(duplicate_rows[1][service_col])
             # _is_return_service(duplicate_rows[2][service_col])

RECURSIVE RowsWithKey(_, _, _)
\* duplicate_rows: the lines of t, from the k-th on, whose _key_tracking is key
RowsWithKey(t, key, k) ==
    IF k > Len(t) THEN <<>>
    ELSE (IF key_tracking(t[k]) = key THEN <<t[k]>> ELSE <<>>) \o RowsWithKey(t, key, k + 1)

RECURSIVE RowsOfClass(_, _, _, _)
\* the lines of rows, from the k-th on, that t classifies as class
RowsOfClass(t, rows, class, k) ==
    IF k > Len(rows) THEN <<>>
    ELSE (IF line_class(t, rows[k]) = class THEN <<rows[k]>> ELSE <<>>)
         \o RowsOfClass(t, rows, class, k + 1)

\* the _net amounts of a sequence of lines
NetsOf(t, rows) == [k \in 1..Len(rows) |-> line_amounts(t, rows[k]).net]

\* value_counts of _key_tracking
tracking_count(t, key) == Cardinality({k \in 1..Len(t) : key_tracking(t[k]) = key})

first_index(t, key) == CHOOSE k \in 1..Len(t) :
    key_tracking(t[k]) = key /\ \A j \in 1..(k - 1) : key_tracking(t[j]) # key

RECURSIVE OrderKeys(_, _)
\* the keys of the set ks by falling count, then by first appearance
OrderKeys(t, ks) ==
    IF ks = {} THEN <<>>
    ELSE LET best == CHOOSE a \in ks : \A b \in ks :
                        \/ tracking_count(t, a) > tracking_count(t, b)
                        \/ /\ tracking_count(t, a) = tracking_count(t, b)
                           /\ first_index(t, a) <= first_index(t, b)
         IN  <<best>> \o OrderKeys(t, ks \ {best})

\* duplicates.index: the tracking keys that occur on more than one line
duplicate_keys(t) ==
    OrderKeys(t, {key_tracking(t[k]) : k \in {j \in 1..Len(t) :
                     tracking_count(t, key_tracking(t[j])) > 1}})

\* a variant of the refund that takes the first amount for every kept line
duplicate_refund_first_amount(transport_nets) ==
    transport_nets[1] * (Len(transport_nets) - 1)

\* refund_estimate of a group whose TRANSPORT lines have the nets transport_nets
duplicate_refund(transport_nets) ==
    IF Cardinality({transport_nets[k] : k \in 1..Len(transport_nets)}) > 1
    THEN SumSeq(transport_nets) - MaxSeq(transport_nets)
    ELSE transport_nets[1] * (Len(transport_nets) - 1)

\* a variant that also reports the group of the lines without a tracking number
group_is_duplicate_with_blank_key(t, tracking_num) ==
    /\ ~_is_original_plus_return_pair(RowsWithKey(t, tracking_num, 1))
    /\ Len(RowsOfClass(t, RowsWithKey(t, tracking_num, 1), "TRANSPORT", 1)) > 1

\* the group of tracking_num passes every skip of the loop and is reported
group_is_duplicate(t, tracking_num) ==
    LET duplicate_rows == RowsWithKey(t, tracking_num, 1)
        num_transport  == Len(RowsOfClass(t, duplicate_rows, "TRANSPORT", 1))
        num_duty_tax   == Len(RowsOfClass(t, duplicate_rows, "DUTY_TAX", 1))
    IN  /\ tracking_num # ""
        /\ ~_is_original_plus_return_pair(duplicate_rows)
        /\ ~(num_transport = 1 /\ num_duty_tax = 1)
        /\ num_transport > 1

\* the finding check_duplicate_tracking appends for a reported group
duplicate_finding(t, tracking_num) ==
    LET duplicate_rows == RowsWithKey(t, tracking_num, 1)
        transport_rows == RowsOfClass(t, duplicate_rows, "TRANSPORT", 1)
        duty_tax_rows  == RowsOfClass(t, duplicate_rows, "DUTY_TAX", 1)
        num_transport  == Len(transport_rows)
        num_duty_tax   == Len(duty_tax_rows)
        transport_nets == NetsOf(t, transport_rows)
        different      == Cardinality({transport_nets[k] : k \in 1..num_transport}) > 1
        net_landed     == SumSeq(transport_nets) + SumSeq(NetsOf(t, duty_tax_rows))
        first_row      == duplicate_rows[1]
    IN  [ error_type      |-> "Duplicate Tracking",
          tracking_number |-> first_row["Tracking Number"],
          date            |-> IF Get(first_row, "Shipment Date", NaT) # NaT
                              THEN strftime(first_row["Shipment Date"]) ELSE "",
          carrier         |-> Get(first_row, "Carrier", ""),
          service_type    |-> Get(first_row, "Service Type", ""),
          dispute_reason  |->
              IF different
              THEN "Multiple freight charges (" \o NatToStr(num_transport)
                   \o " lines with different amounts)"
              ELSE "Duplicate freight billing (" \o NatToStr(num_transport)
                   \o " identical charges)",
          refund_estimate |-> duplicate_refund(transport_nets),
          notes           |-> "Transport: " \o NatToStr(num_transport) \o ", Duty/Tax: "
                              \o NatToStr(num_duty_tax) \o ", Landed: $" \o Fmt2f(net_landed) ]

RECURSIVE DuplicatesFrom(_, _, _)
DuplicatesFrom(t, keys, k) ==
    IF k > Len(keys) THEN <<>>
    ELSE (IF group_is_duplicate(t, keys[k]) THEN <<duplicate_finding(t, keys[k])>> ELSE <<>>)
         \o DuplicatesFrom(t, keys, k + 1)

\* check_duplicate_tracking
check_duplicate_tracking(t) ==
    IF Len(t) = 0 \/ "Tracking Number" \notin Columns(t) THEN <<>>
    ELSE DuplicatesFrom(t, duplicate_keys(t), 1)

---------------------------------------------------------------------------
(* check_disputable_surcharges: parsing the merged surcharge detail text.  *)

RECURSIVE SplitParts(_, _)
\* re.split(r'\s*[|;,]\s*', raw): cur is the part read so far
SplitParts(raw, cur) ==
    IF raw = "" THEN <<cur>>
    ELSE IF CharAt(raw, 1) \in {"|", ";", ","}
         THEN <<RStrip(cur)>> \o SplitParts(LStrip(Tail(raw)), "")
         ELSE SplitParts(Tail(raw), cur \o CharAt(raw, 1))

RECURSIVE SkipWs(_, _)
\* the first position from i on that holds no whitespace
SkipWs(p, i) == IF i <= Len(p) /\ IsSpace(CharAt(p, i)) THEN SkipWs(p, i + 1) ELSE i

RECURSIVE DigitsEnd(_, _)
\* the position after the run of digits that starts at i
DigitsEnd(p, i) == IF i <= Len(p) /\ IsDigit(CharAt(p, i)) THEN DigitsEnd(p, i + 1) ELSE i

RECURSIVE DigitsValue(_)
\* int(s) for a string of digits
DigitsValue(s) ==
    IF s = "" THEN 0
    ELSE 10 * DigitsValue(SubSeq(s, 1, Len(s) - 1)) + DigitOf[CharAt(s, Len(s))]

\* where  \s*\$?\s*  leads from position i
AfterDollar(p, i) ==
    LET a == SkipWs(p, i)
        b == IF a <= Len(p) /\ CharAt(p, a) = "$" THEN a + 1 ELSE a
    IN  SkipWs(p, b)

\* -?\d+(?:\.\d+)? matches at position i
NumberAt(p, i) ==
    LET d == IF i <= Len(p) /\ CharAt(p, i) = "-" THEN i + 1 ELSE i
    IN  d <= Len(p) /\ IsDigit(CharAt(p, d))

\* the position after the number -?\d+(?:\.\d+)? that starts at i
NumberEnd(p, i) ==
    LET d == IF CharAt(p, i) = "-" THEN i + 1 ELSE i
        e == DigitsEnd(p, d)
    IN  IF e + 1 <= Len(p) /\ CharAt(p, e) = "." /\ IsDigit(CharAt(p, e + 1))
        THEN DigitsEnd(p, e + 1) ELSE e

\* float(...) of the number that starts at i, in mills (three decimals are kept)
NumberValue(p, i) ==
    LET neg   == CharAt(p, i) = "-"
        d     == IF neg THEN i + 1 ELSE i
        e     == DigitsEnd(p, d)
        whole == DigitsValue(SubSeq(p, d, e - 1))
        hasf  == e + 1 <= Len(p) /\ CharAt(p, e) = "." /\ IsDigit(CharAt(p, e + 1))
        fs    == IF hasf THEN SubSeq(p, e + 1, DigitsEnd(p, e + 1) - 1) ELSE ""
        f3    == SubSeq(fs \o "000", 1, 3)
        v     == whole * 1000 + DigitsValue(f3)
    IN  IF neg THEN 0 - v ELSE v

\* the label lengths k for which  (.+?)[\s:]\s*\$?\s*(-?\d+(?:\.\d+)?)  matches p
\* with the label p[1..k]
LabelLengths(p) ==
    {k \in 1..(Len(p) - 1) :
        /\ CharAt(p, k + 1) \in {" ", "\t", ":"}
        /\ NumberAt(p, AfterDollar(p, k + 2))}

\* ^\s*[:;]?\s*\$?\s*(-?\d+(?:\.\d+)?)\s*$ : the start of the number, 0 for no match
BareAmountStart(p) ==
    LET a == SkipWs(p, 1)
        b == IF a <= Len(p) /\ CharAt(p, a) \in {":", ";"} THEN a + 1 ELSE a
        c == AfterDollar(p, b)
    IN  IF NumberAt(p, c) /\ SkipWs(p, NumberEnd(p, c)) = Len(p) + 1 THEN c ELSE 0

\* one part of the detail text as a surcharge entry, <<>> when it holds none
parse_part(p) ==
    IF LabelLengths(p) # {}
    THEN LET k == CHOOSE a \in LabelLengths(p) : \A b \in LabelLengths(p) : a <= b
             label_text == Strip(SubSeq(p, 1, k))
             amt  == NumberValue(p, AfterDollar(p, k + 2))
             desc == IF label_text \in {":", "-", ".", ""}
                     THEN "BLANK DESCRIPTION CHARGE" ELSE canonize(label_text)
         IN  IF amt # 0 THEN <<[label |-> label_text, desc |-> desc, amount |-> amt]>>
             ELSE <<>>
    ELSE IF BareAmountStart(p) # 0
    THEN LET amt == NumberValue(p, BareAmountStart(p))
         IN  IF amt # 0
             THEN <<[label |-> "", desc |-> "BLANK DESCRIPTION CHARGE", amount |-> amt]>>
             ELSE <<>>
    ELSE <<>>

RECURSIVE ParseParts(_, _)
ParseParts(parts, k) ==
    IF k > Len(parts) THEN <<>>
    ELSE (IF Strip(parts[k]) = "" THEN <<>> ELSE parse_part(parts[k]))
         \o ParseParts(parts, k + 1)

\* parse_merged(text) for the cell text of Surcharge_Details ('' when absent)
parse_merged(text) ==
    IF text = "" \/ Lower(Strip(CellStr("Surcharge_Details", text))) = "nan" THEN <<>>
    ELSE ParseParts(SplitParts(text, ""), 1)

surcharge_columns == <<
    "Address Correction", "Residential Surcharge",
    "Saturday Delivery", "Saturday Pickup", "Sunday Delivery", "Return Fee", "Redirect Fee",
    "Hold at Location", "Additional Handling", "Oversize Charge", "Overweight Charge",
    "Peak Surcharge", "Peak Additional Handling", "Peak Oversize", "Peak Residential",
    "Fuel Surcharge", "Declared Value Charge", "Brokerage Fee", "Duty and Tax",
    "Entry Preparation", "Clearance Entry", "Missing Documentation",
    "Attempted Delivery", "Undeliverable", "Weight Correction", "DIM Weight Adjustment",
    "Unauthorized Package" >>

RECURSIVE IndivFrom(_, _)
\* indiv: the discrete surcharge columns of the row that hold a non-zero amount
IndivFrom(row, k) ==
    IF k > Len(surcharge_columns) THEN <<>>
    ELSE LET col == surcharge_columns[k]
         IN  (IF col \in DOMAIN row /\ row[col] # 0
              THEN <<[label |-> col, desc |-> canonize(col), amount |-> row[col]]>>
              ELSE <<>>) \o IndivFrom(row, k + 1)

\* surcharges = merged + indiv
row_surcharges(row) == parse_merged(Get(row, "Surcharge_Details", "")) \o IndivFrom(row, 1)

---------------------------------------------------------------------------
(* check_disputable_surcharges: the context of a row and the rules.        *)
(* Weights are tenths of a pound, dimensions whole inches.                 *)

length_candidates == <<"Dimmed Length", "Length", "Length (in)", "Pkg Length", "Package Length", "Len">>
width_candidates  == <<"Dimmed Width", "Width", "Width (in)", "Pkg Width", "Package Width", "Wid">>
height_candidates == <<"Dimmed Height", "Height", "Height (in)", "Pkg Height", "Package Height", "Hgt">>

actual_wt_candidates == <<"Actual Weight", "Original Weight", "Shipment Actual Weight",
                          "Package Weight", "Weight">>
billed_wt_candidates == <<"Billed Weight", "Shipment Rated Weight", "Rated Weight",
                          "Billable Weight", "Chargeable Weight">>
net_charge_cols == <<"Net Charge Amount USD", "Net Charge", "Total Charges">>
service_candidates == <<"Service Type", "Service Description">>
delivery_date_candidates == <<"Actual Delivery Date", "Shipment Delivery Date (mm/dd/yyyy)",
                              "Delivery Date">>

Max2(a, b) == IF a >= b THEN a ELSE b
Min2(a, b) == IF a <= b THEN a ELSE b

\* sorted([L, W, H], reverse=True)
SortedDims(L, W, H) ==
    LET hi == Max2(L, Max2(W, H))
        lo == Min2(L, Min2(W, H))
    IN  <<hi, L + W + H - hi - lo, lo>>

\* round(x / unit) with ties going to the even number, for x >= 0
RoundHalfEven(x, unit) ==
    LET q == x \div unit
        r == x % unit
    IN  IF 2 * r > unit \/ (2 * r = unit /\ q % 2 = 1) THEN q + 1 ELSE q

\* f'{w:.1f}' for a weight of w tenths, f'{n:.1f}' for a whole number n
Fmt1fTenths(w) == NatToStr(w \div 10) \o "." \o NatToStr(w % 10)
Fmt1fWhole(n) == NatToStr(n) \o ".0"

\* the service type text of the row, upper-cased
service_type_of(row) == _get_text(row, service_candidates)

\* a loop that skips no row
is_rmgr_never(row) == FALSE

\* the RMGR skip of the loop
is_rmgr(row) == Contains(Upper(service_type_of(row)), "RMGR")

\* the divisor of the domestic services, for every service
dim_divisor_domestic(service_upper) == 139

\* dim_divisor: 166 for an international service, 139 otherwise
dim_divisor(service_upper) ==
    IF Contains(service_upper, "INTERNATIONAL") \/ Contains(service_upper, "INTL")
    THEN 166 ELSE 139

\* dim_wt: math.ceil((L*W*H)/dim_divisor) when all three dimensions are present
dim_wt(L, W, H, divisor) ==
    IF L > 0 /\ W > 0 /\ H > 0 THEN (L * W * H + divisor - 1) \div divisor ELSE 0

\* longest, second, third and girth of the sorted dimensions, with the weights
size_context(dims, actual_wt, billed_wt, dim_weight) ==
    [ longest |-> dims[1], second |-> dims[2], third |-> dims[3],
      girth |-> 2 * (dims[2] + dims[3]),
      actual_wt |-> actual_wt, billed_wt |-> billed_wt, dim_wt |-> dim_weight ]

\* the context of a row with the dimensions L, W and H
measured_context(row, L, W, H) ==
    size_context(SortedDims(L, W, H),
                 _get_float_value(row, actual_wt_candidates),
                 _get_float_value(row, billed_wt_candidates),
                 dim_wt(L, W, H, dim_divisor(Upper(service_type_of(row)))))

\* the size and weight context of the row
row_context(row) ==
    measured_context(row, _get_dimension(row, length_candidates),
                     _get_dimension(row, width_candidates),
                     _get_dimension(row, height_candidates))

intl_indicators == <<"INTERNATIONAL", "INTL", "GLOBAL", "WORLD", "EXPORT", "IMPORT">>
intl_service_codes == <<"OA", "LO", "IP", "IE", "IF", "IG", "SG", "F1", "FO", "IX", "XS">>

\* is_international of the customs and fuel rules
is_international(service_upper) ==
    \/ \E k \in 1..Len(intl_indicators) : Contains(service_upper, intl_indicators[k])
    \/ \E k \in 1..Len(intl_service_codes) :
          \/ StartsWith(service_upper, intl_service_codes[k])
          \/ Contains(service_upper, " " \o intl_service_codes[k])
          \/ intl_service_codes[k] = service_upper

RECURSIVE SumNetFor(_, _, _)
\* tracking_total_net_charge[tracking]: the net charges of the lines of t, from the
\* k-th on, that carry the tracking number
SumNetFor(t, tracking, k) ==
    IF k > Len(t) THEN 0
    ELSE (IF Get(t[k], "Tracking Number", "") = tracking
          THEN _get_float_value(t[k], net_charge_cols) ELSE 0) + SumNetFor(t, tracking, k + 1)

\* tracking in tracking_total_net_charge (an empty tracking number is never entered,
\* and a NaN key is never found again)
has_tracking_total(tracking) == tracking # "" /\ tracking # NaN

\* the fallback to the base rate when the net charge is zero
or_base_rate(row, net_charge) == IF net_charge = 0 THEN Get(row, "Base Rate", 0) ELSE net_charge

\* net_charge of the fuel rule: the reference the fuel amount is compared with
fuel_reference(t, row) ==
    or_base_rate(row,
        IF is_international(Upper(service_type_of(row)))
           /\ has_tracking_total(Get(row, "Tracking Number", ""))
        THEN SumNetFor(t, Get(row, "Tracking Number", ""), 1)
        ELSE _get_float_value(row, net_charge_cols))

\* the pairs <<amount, net_charge>> with amount exactly 30% of net_charge for which the
\* double (amount / net_charge) * 100 comes out above 30 (30.000000000000004);
\* for every other pair of this ratio, such as 30.00 of 100.00, it is exactly 30.0.
\* The table covers net charges of 9.00, 10.00, 100.00 and 200.00 dollars.
RoundsUpAt30 == { <<2700, 9000>> }

\* pct > 30 for pct = (amount / net_charge) * 100 in double arithmetic, net_charge > 0
pct_exceeds_30(amount, net_charge) ==
    \/ amount * 100 > 30 * net_charge
    \/ amount * 100 = 30 * net_charge /\ <<amount, net_charge>> \in RoundsUpAt30

\* f'{pct:.1f}' for pct = amount / net_charge * 100, amount >= 0
PctStr(amount, net_charge) == Fmt1fTenths(RoundHalfEven(amount * 1000, net_charge))

day_names == <<"Monday", "Tuesday", "Wednesday", "Thursday", "Friday", "Saturday", "Sunday">>

\* f'${a:.2f}'
Usd(a) == "$" \o Fmt2f(a)

\* the outcome of a rule: dispute_reason ('' for None), refund_estimate, notes
Outcome(reason, refund, notes) == [reason |-> reason, refund |-> refund, notes |-> notes]
NoDispute == Outcome("", 0, "")

\* a variant of rule 7 that does not ask for a dimension to be present
additional_handling_rule_no_dims_guard(c, desc, amount) ==
    LET needs_handling == \/ c.longest > 48
                          \/ c.second > 30
                          \/ (c.longest + c.girth) > 105
                          \/ c.actual_wt >= 500
    IN  IF ~needs_handling
        THEN Outcome("Additional Handling charged but size/weight thresholds not met", amount, "")
        ELSE NoDispute

\* rule 7: Additional Handling charged although no size or weight threshold is met
additional_handling_rule(c, desc, amount) ==
    LET needs_handling == \/ c.longest > 48
                          \/ c.second > 30
                          \/ (c.longest + c.girth) > 105
                          \/ c.actual_wt >= 500
    IN  IF ~needs_handling /\ c.longest > 0
        THEN Outcome("Additional Handling charged but size/weight thresholds not met", amount,
                     "Dims " \o Fmt1fWhole(c.longest) \o "x" \o Fmt1fWhole(c.second) \o "x"
                     \o Fmt1fWhole(c.third) \o "\", Wt " \o Fmt1fTenths(c.actual_wt) \o " lb")
        ELSE NoDispute

\* rule 8: Oversize charged although no threshold is met
oversize_rule(c, desc, amount) ==
    LET length_plus_girth == c.longest + c.girth
        is_oversize == c.longest > 96 \/ length_plus_girth > 130
    IN  IF ~is_oversize /\ c.longest > 0
        THEN Outcome("Oversize charge applied but thresholds not met", amount,
                     "L=" \o Fmt1fWhole(c.longest) \o "\", L+G=" \o Fmt1fWhole(length_plus_girth)
                     \o "\" (thresholds: >96\" OR >130\")")
        ELSE NoDispute

\* rule 10: the peak surcharges
peak_rule(row, desc, amount) ==
    LET ship_date == Get(row, "Shipment Date", NaT)
        su == Upper(service_type_of(row))
    IN  IF ship_date # NaT /\ CivilFromDays(ship_date)[2] \notin {11, 12, 1}
        THEN Outcome("Peak surcharge outside typical peak season (Nov-Jan)", (amount * 7) \div 10, "")
        ELSE IF \E p \in {"OVERNIGHT", "PRIORITY", "EXPRESS"} : Contains(su, p)
        THEN Outcome("Peak surcharge on premium service - review reasonableness",
                     (amount * 4) \div 10, "")
        ELSE NoDispute

\* rule 12: the weight-related charges
weight_rule(c, desc, amount) ==
    LET correct_billable == Max2(RoundHalfEven(c.actual_wt, 10), c.dim_wt)
        over == c.billed_wt - 10 * correct_billable
        first == IF c.dim_wt > 0 /\ c.billed_wt > 0 /\ over > 10
                 THEN Outcome("Billed weight appears " \o NatToStr(RoundHalfEven(over, 10))
                              \o " lb over correct billable", (amount * 8) \div 10,
                              "Actual " \o Fmt1fTenths(c.actual_wt) \o ", DIM " \o NatToStr(c.dim_wt)
                              \o " (ceil), Billed " \o NatToStr(RoundHalfEven(c.billed_wt, 10)))
                 ELSE NoDispute
    IN  IF desc = "OVERWEIGHT CHARGE" /\ 0 < c.actual_wt /\ c.actual_wt < 1500
        THEN Outcome("Overweight charge but actual weight " \o Fmt1fTenths(c.actual_wt)
                     \o " lb (<150 lb threshold)", amount, first.notes)
        ELSE first

\* rule 15: the fuel surcharge against the net charge
fuel_outcome(amount, net_charge) ==
    IF net_charge > 0 /\ pct_exceeds_30(amount, net_charge)
    THEN Outcome("Fuel surcharge unusually high (" \o PctStr(amount, net_charge)
                 \o "% of net charge)", (amount * 3) \div 10,
                 "FSC " \o Usd(amount) \o " / Net Charge " \o Usd(net_charge))
    ELSE NoDispute

fuel_rule(t, row, desc, amount) == fuel_outcome(amount, fuel_reference(t, row))

\* rule 2: a residential surcharge on a business recipient
residential_rule(row, desc, amount) ==
    LET is_recipient_business == _has_business_indicators(Upper(_get_full_destination_info(row)))
        is_shipper_business   == _has_business_indicators(Upper(_get_full_shipper_info(row)))
    IN  IF is_recipient_business
        THEN Outcome("Residential surcharge applied to business address", amount,
                     IF is_shipper_business
                     THEN "Both recipient and shipper have business indicators (B2B)"
                     ELSE "Recipient address has business indicators")
        ELSE NoDispute

\* rule 4: a weekend surcharge on a weekday delivery
weekend_outcome(amount, delivery_date) ==
    IF delivery_date # NaT /\ weekday(delivery_date) < 5
    THEN Outcome("Weekend surcharge but delivery/pickup occurred on weekday", amount,
                 "Date: " \o day_names[weekday(delivery_date) + 1])
    ELSE NoDispute

weekend_rule(row, desc, amount) ==
    weekend_outcome(amount, _get_date(row, delivery_date_candidates))

\* the if/elif chain of the loop over the surcharges of one row (the long dashes of
\* the source's texts are written '-')
rule_chain(t, row, c, desc, amount, blank_desc_count) ==
    CASE desc = "BLANK DESCRIPTION CHARGE" ->
            IF blank_desc_count = 1
            THEN Outcome("Charge with no description - FedEx must provide reason for all charges",
                         amount, "Blank/missing surcharge description")
            ELSE NoDispute
      [] desc = "ADDRESS CORRECTION" ->
            Outcome("Address correction fee - verify original label; often disputable",
                    (amount * 8) \div 10, "")
      [] desc = "RESIDENTIAL SURCHARGE" -> residential_rule(row, desc, amount)
      [] desc \in {"SATURDAY DELIVERY", "SATURDAY PICKUP", "SUNDAY/WEEKEND CHARGE"} ->
            weekend_rule(row, desc, amount)
      [] desc \in {"RETURN FEE", "REDIRECT DELIVERY FEE", "HOLD AT LOCATION FEE"} ->
            Outcome(desc \o " - verify customer/carrier request vs. error", (amount * 6) \div 10, "")
      [] desc = "BILLING ERROR FEE" ->
            Outcome("Billing error should not be passed to customer", amount, "")
      [] desc = "ADDITIONAL HANDLING SURCHARGE" -> additional_handling_rule(c, desc, amount)
      [] desc = "OVERSIZE CHARGE" -> oversize_rule(c, desc, amount)
      [] desc = "UNAUTHORIZED PACKAGE CHARGE" ->
            Outcome("Unauthorized package charge - verify proper authorization/labels",
                    (amount * 8) \div 10, "")
      [] desc \in {"PEAK ADDITIONAL HANDLING", "PEAK OVERSIZE", "PEAK RESIDENTIAL", "PEAK SURCHARGE"} ->
            peak_rule(row, desc, amount)
      [] desc = "SERVICE FAILURE ADJUSTMENT" ->
            Outcome("Service failure should be refunded, not charged", amount, "")
      [] desc \in {"WEIGHT CORRECTION", "DIM WEIGHT ADJUSTMENT", "OVERWEIGHT CHARGE"} ->
            weight_rule(c, desc, amount)
      [] desc = "CUSTOMS/BROKERAGE FEE" ->
            IF ~is_international(Upper(service_type_of(row)))
            THEN Outcome("Customs/brokerage fee - verify necessity and accuracy",
                         (amount * 5) \div 10, "")
            ELSE NoDispute
      [] desc = "FAILED PICKUP/DELIVERY FEE" ->
            Outcome("Failed delivery/pickup - verify carrier attempts & contact info",
                    (amount * 7) \div 10, "")
      [] desc = "FUEL SURCHARGE" -> fuel_rule(t, row, desc, amount)
      [] desc = "DECLARED VALUE CHARGE" ->
            IF Get(row, "Declared Value", 0) < 100000
            THEN Outcome("Declared value charge on low-value package ("
                         \o Usd(Get(row, "Declared Value", 0)) \o ")", amount, "")
            ELSE NoDispute
      [] desc = "MISSING DOCUMENTATION FEE" ->
            Outcome("Missing documentation fee - verify paperwork actually missing",
                    (amount * 7) \div 10, "")
      [] OTHER -> NoDispute

\* the outcome of the chain for one surcharge of the row
surcharge_rule(t, row, desc, amount, blank_desc_count) ==
    rule_chain(t, row, row_context(row), desc, amount, blank_desc_count)

---------------------------------------------------------------------------
(* check_disputable_surcharges: the findings of a row and the whole check. *)

\* the surcharges the loop evaluates for the row: none for an RMGR row
evaluated_surcharges(row) == IF is_rmgr(row) THEN <<>> ELSE row_surcharges(row)

\* the number of entries of the surcharges with the canonical description desc
desc_count(surcharges, desc) ==
    Cardinality({k \in 1..Len(surcharges) : surcharges[k].desc = desc})

\* bucket[desc]: the summed amounts of the entries with the description
RECURSIVE bucket(_, _, _)
bucket(surcharges, desc, k) ==
    IF k > Len(surcharges) THEN 0
    ELSE (IF surcharges[k].desc = desc THEN surcharges[k].amount ELSE 0)
         + bucket(surcharges, desc, k + 1)

\* the finding dictionary the check appends for the row
surcharge_finding(row, dispute_reason, refund_estimate, notes) ==
        [ error_type      |-> "Disputable Surcharge",
          tracking_number |-> Get(row, "Tracking Number", ""),
          date            |-> DateText(Get(row, "Shipment Date", NaT)),
          carrier         |-> Upper(GetStr(row, "Carrier")),
          service_type    |-> service_type_of(row),
          dispute_reason  |-> dispute_reason,
          refund_estimate |-> refund_estimate,
          notes           |-> notes ]

\* the finding appended when the rule gave a dispute reason o.reason
rule_finding(row, desc, amount, o) ==
    IF o.reason # ""
    THEN <<surcharge_finding(row, o.reason, o.refund,
              desc \o " " \o Usd(amount) \o (IF o.notes # "" THEN " | " \o o.notes ELSE ""))>>
    ELSE <<>>

RECURSIVE RuleFindings(_, _, _, _)
\* the findings of the rule loop for the surcharges of the row, from the k-th on
RuleFindings(t, row, surcharges, k) ==
    IF k > Len(surcharges) THEN <<>>
    ELSE rule_finding(row, surcharges[k].desc, surcharges[k].amount,
                      surcharge_rule(t, row, surcharges[k].desc, surcharges[k].amount,
                                     desc_count(surcharges, "BLANK DESCRIPTION CHARGE")))
         \o RuleFindings(t, row, surcharges, k + 1)

\* a variant that refunds the whole total of every repeated description
duplicate_surcharge_outcome_full_total(desc, cnt, total_amt) ==
    IF desc = "BLANK DESCRIPTION CHARGE"
    THEN Outcome("Multiple charges (" \o NatToStr(cnt)
                 \o "x) with blank descriptions - FedEx must provide reason for all charges",
                 total_amt,
                 "Blank description charges billed " \o NatToStr(cnt) \o "x, total "
                 \o Usd(total_amt))
    ELSE Outcome("Duplicate surcharge appears " \o NatToStr(cnt) \o " times",
                 total_amt,
                 desc \o " billed " \o NatToStr(cnt) \o "x, total " \o Usd(total_amt))

\* the finding for a description that occurs cnt > 1 times on the row
duplicate_surcharge_outcome(desc, cnt, total_amt) ==
    IF desc = "BLANK DESCRIPTION CHARGE"
    THEN Outcome("Multiple charges (" \o NatToStr(cnt)
                 \o "x) with blank descriptions - FedEx must provide reason for all charges",
                 total_amt,
                 "Blank description charges billed " \o NatToStr(cnt) \o "x, total "
                 \o Usd(total_amt))
    ELSE Outcome("Duplicate surcharge appears " \o NatToStr(cnt) \o " times",
                 (total_amt * (cnt - 1)) \div cnt,
                 desc \o " billed " \o NatToStr(cnt) \o "x, total " \o Usd(total_amt))

\* the finding dictionary of an outcome
outcome_finding(row, o) == surcharge_finding(row, o.reason, o.refund, o.notes)

duplicate_surcharge_finding(row, surcharges, desc) ==
    outcome_finding(row, duplicate_surcharge_outcome(desc, desc_count(surcharges, desc),
                                                     bucket(surcharges, desc, 1)))

RECURSIVE CounterFindings(_, _, _)
\* the loop over Counter(seen_desc): descriptions in the order of their first entry
CounterFindings(row, surcharges, k) ==
    IF k > Len(surcharges) THEN <<>>
    ELSE LET desc == surcharges[k].desc
             is_first == \A j \in 1..(k - 1) : surcharges[j].desc # desc
         IN  (IF is_first /\ desc_count(surcharges, desc) > 1
              THEN <<duplicate_surcharge_finding(row, surcharges, desc)>>
              ELSE <<>>) \o CounterFindings(row, surcharges, k + 1)

\* the findings of one pass of the loop over the rows
surcharge_findings(t, row, surcharges) ==
    RuleFindings(t, row, surcharges, 1) \o CounterFindings(row, surcharges, 1)

row_findings(t, row) == surcharge_findings(t, row, evaluated_surcharges(row))

RECURSIVE AllRowFindings(_, _)
AllRowFindings(t, k) ==
    IF k > Len(t) THEN <<>> ELSE row_findings(t, t[k]) \o AllRowFindings(t, k + 1)

is_dup_surcharge(f) == StartsWith(f.dispute_reason, "Duplicate surcharge")

RECURSIVE SelectDup(_, _)
\* the findings of fs whose being a duplicate-surcharge finding is the flag want
SelectDup(fs, want) ==
    IF fs = <<>> THEN <<>>
    ELSE (IF is_dup_surcharge(Head(fs)) = want THEN <<Head(fs)>> ELSE <<>>)
         \o SelectDup(Tail(fs), want)

RECURSIVE WithTracking(_, _)
\* by_tracking[tracking]: the findings of fs with the tracking number
WithTracking(fs, tracking) ==
    IF fs = <<>> THEN <<>>
    ELSE (IF Head(fs).tracking_number = tracking THEN <<Head(fs)>> ELSE <<>>)
         \o WithTracking(Tail(fs), tracking)

RECURSIVE JoinNotes(_)
\* ' | '.join of the notes of a group
JoinNotes(group) ==
    IF Len(group) = 1 THEN group[1].notes
    ELSE group[1].notes \o " | " \o JoinNotes(Tail(group))

RECURSIVE SumRefunds(_)
SumRefunds(fs) == IF fs = <<>> THEN 0 ELSE Head(fs).refund_estimate + SumRefunds(Tail(fs))

\* a variant that keeps the first finding of a group and drops the others
consolidate_group_first(tracking, group) == group[1]

\* the finding a tracking number's group of duplicate-surcharge findings becomes
consolidate_group(tracking, group) ==
    IF Len(group) = 1 THEN group[1]
    ELSE [ error_type      |-> "Disputable Surcharge",
           tracking_number |-> tracking,
           date            |-> group[1].date,
           carrier         |-> group[1].carrier,
           service_type    |-> group[1].service_type,
           dispute_reason  |-> "Duplicate surcharge appears " \o NatToStr(Len(group)) \o " times",
           refund_estimate |-> SumRefunds(group),
           notes           |-> JoinNotes(group) ]

RECURSIVE Consolidated(_, _)
\* consolidated: one finding per tracking number, in the order of first appearance
Consolidated(dups, k) ==
    IF k > Len(dups) THEN <<>>
    ELSE LET tracking == dups[k].tracking_number
             is_first == \A j \in 1..(k - 1) : dups[j].tracking_number # tracking
         IN  (IF is_first THEN <<consolidate_group(tracking, WithTracking(dups, tracking))>>
              ELSE <<>>) \o Consolidated(dups, k + 1)

\* check_disputable_surcharges
consolidate(fs) == SelectDup(fs, FALSE) \o Consolidated(SelectDup(fs, TRUE), 1)

check_disputable_surcharges(t) == consolidate(AllRowFindings(t, 1))

---------------------------------------------------------------------------
(* get_actionable_errors, and filter_by_filing_window of the application.  *)

actionable_error_types == {"Late Delivery", "Duplicate Tracking", "Disputable Surcharge"}

\* a priority that is High above 50 dollars only
claim_priority_above(refund_estimate) ==
    IF refund_estimate < 10000 THEN "Low"
    ELSE IF refund_estimate > 50000 THEN "High" ELSE "Medium"

\* the Claim Priority of a refund estimate (thresholds of 50 and 10 dollars)
claim_priority(refund_estimate) ==
    IF refund_estimate < 10000 THEN "Low"
    ELSE IF refund_estimate >= 50000 THEN "High" ELSE "Medium"

\* the row of the actionable frame for a finding
actionable_row(f) ==
    [c \in DOMAIN f \cup {"claim_status", "claim_priority"} |->
        IF c = "claim_status" THEN "Ready to Submit"
        ELSE IF c = "claim_priority" THEN claim_priority(f.refund_estimate)
        ELSE f[c]]

RECURSIVE get_actionable_errors(_)
get_actionable_errors(fs) ==
    IF fs = <<>> THEN <<>>
    ELSE (IF Head(fs).error_type \in actionable_error_types
          THEN <<actionable_row(Head(fs))>> ELSE <<>>) \o get_actionable_errors(Tail(fs))

\* the characters s[i..i+n-1] exist and are digits
DigitsAt(s, i, n) == i + n - 1 <= Len(s) /\ \A k \in i..(i + n - 1) : IsDigit(CharAt(s, k))

\* Timestamp of the civil date, NaT when there is no such day or it is out of range
DateOf(y, m, d) ==
    IF /\ y >= 1678 /\ y <= 2261 /\ m >= 1 /\ m <= 12 /\ d >= 1
       /\ CivilFromDays(DaysFromCivil(y, m, d)) = <<y, m, d>>
    THEN DaysFromCivil(y, m, d) ELSE NaT

\* \d{4}-\d{2}-\d{2} matches at position i
IsoAt(s, i) ==
    /\ DigitsAt(s, i, 4) /\ i + 9 <= Len(s)
    /\ CharAt(s, i + 4) = "-" /\ DigitsAt(s, i + 5, 2)
    /\ CharAt(s, i + 7) = "-" /\ DigitsAt(s, i + 8, 2)

\* pd.to_datetime of the ISO date at position i
IsoValue(s, i) ==
    DateOf(DigitsValue(SubSeq(s, i, i + 3)), DigitsValue(SubSeq(s, i + 5, i + 6)),
           DigitsValue(SubSeq(s, i + 8, i + 9)))

\* the lengths <<a, b>> of the two leading numbers with which \d{1,2}/\d{1,2}/\d{4}
\* matches at position i, the longer numbers tried first; <<0, 0>> for no match
SlashAt(s, i) ==
    LET ok(a, b) == /\ DigitsAt(s, i, a) /\ i + a <= Len(s) /\ CharAt(s, i + a) = "/"
                    /\ DigitsAt(s, i + a + 1, b) /\ i + a + 1 + b <= Len(s)
                    /\ CharAt(s, i + a + 1 + b) = "/"
                    /\ DigitsAt(s, i + a + b + 2, 4)
    IN  IF ok(2, 2) THEN <<2, 2>> ELSE IF ok(2, 1) THEN <<2, 1>>
        ELSE IF ok(1, 2) THEN <<1, 2>> ELSE IF ok(1, 1) THEN <<1, 1>> ELSE <<0, 0>>

\* pd.to_datetime of the date m/d/yyyy at position i: the month comes first, and the
\* day comes first when the first number can be no month
SlashValue(s, i) ==
    LET ab == SlashAt(s, i)
        n1 == DigitsValue(SubSeq(s, i, i + ab[1] - 1))
        n2 == DigitsValue(SubSeq(s, i + ab[1] + 1, i + ab[1] + ab[2]))
        y  == DigitsValue(SubSeq(s, i + ab[1] + ab[2] + 2, i + ab[1] + ab[2] + 5))
    IN  IF n1 <= 12 THEN DateOf(y, n1, n2) ELSE DateOf(y, n2, n1)

\* the positions at which  Actual:\s*(<date>)  matches the notes
ActualMatches(notes) ==
    {i \in 1..Len(notes) :
        /\ StartsAt(notes, i, "Actual:")
        /\ LET j == SkipWs(notes, i + 7)
           IN  IsoAt(notes, j) \/ SlashAt(notes, j) # <<0, 0>>}

\* extract_actual_date: the date of the first match (a date alone, no time of day)
extract_actual_date(notes) ==
    IF notes = NaN \/ ActualMatches(notes) = {} THEN NaT
    ELSE LET i == CHOOSE a \in ActualMatches(notes) : \A b \in ActualMatches(notes) : a <= b
             j == SkipWs(notes, i + 7)
         IN  IF IsoAt(notes, j) THEN IsoValue(notes, j) ELSE SlashValue(notes, j)

\* pd.to_datetime(..., errors='coerce') of the text of a Date cell
parse_date_text(s) ==
    IF IsoAt(s, 1) /\ Len(s) = 10 THEN IsoValue(s, 1) ELSE NaT

\* the column of the frame parsed as a date, NaT when the frame has no such column
date_column(f, c) == IF c \in DOMAIN f THEN f[c] ELSE NaT

\* a variant that takes the second date first
fill_second_first(a, b) == IF b # NaT THEN b ELSE a

\* fillna: a if it is a date, else b
FillNa(a, b) == IF a # NaT THEN a ELSE b

\* a variant of the status that closes the window a day early
window_status_strict(now, ref, window) ==
    IF ref = NaT THEN "missing_date"
    ELSE IF now - ref < window THEN "within_window" ELSE "expired"

\* a variant that leaves a claim without a reference date pending
window_status_pending(now, ref, window) ==
    IF ref = NaT THEN "pending"
    ELSE IF now - ref <= window THEN "within_window" ELSE "expired"

\* the status of a claim whose reference date is ref under a window of so many days
window_status(now, ref, window) ==
    IF ref = NaT THEN "missing_date"
    ELSE IF now - ref <= window THEN "within_window" ELSE "expired"

\* the _status filter_by_filing_window gives a row of the actionable frame
filing_status(f, now) ==
    LET error_upper    == Upper(f.error_type)
        shipment_date  == date_column(f, "shipment_date")
        invoice_date   == date_column(f, "invoice_date")
        date           == parse_date_text(f.date)
        delivery_date  == extract_actual_date(f.notes)
    IN  IF Contains(error_upper, "LATE DELIVERY")
        THEN window_status(now, delivery_date, 15)
        ELSE IF Contains(error_upper, "LOST") \/ Contains(error_upper, "DAMAGE")
        THEN window_status(now, FillNa(shipment_date, date), 60)
        ELSE IF Contains(error_upper, "DISPUTABLE SURCHARGE") \/ Contains(error_upper, "DUPLICATE")
        THEN window_status(now, FillNa(invoice_date, date), 180)
        ELSE window_status(now, FillNa(invoice_date, date), 180)

\* the _status column of the whole frame
filter_by_filing_window(frame, now) == [i \in 1..Len(frame) |-> filing_status(frame[i], now)]

RECURSIVE status_frame(_, _, _, _)
\* df[df['_status'] == s]: the rows of the frame from position k on with the status s
status_frame(frame, statuses, s, k) ==
    IF k > Len(frame) THEN <<>>
    ELSE (IF statuses[k] = s THEN <<frame[k]>> ELSE <<>>)
         \o status_frame(frame, statuses, s, k + 1)

\* the summary dictionary of filter_by_filing_window, {} for an empty frame
filing_window_summary(frame, statuses) ==
    IF frame = <<>> THEN <<>>
    ELSE LET filtered_df     == status_frame(frame, statuses, "within_window", 1)
             expired_df      == status_frame(frame, statuses, "expired", 1)
             missing_date_df == status_frame(frame, statuses, "missing_date", 1)
         IN  [ total_original       |-> Len(frame),
               total_original_value |-> SumRefunds(frame),
               within_window        |-> Len(filtered_df),
               within_window_value  |-> SumRefunds(filtered_df),
               expired              |-> Len(expired_df),
               expired_value        |-> SumRefunds(expired_df),
               missing_date         |-> Len(missing_date_df),
               missing_date_value   |-> SumRefunds(missing_date_df) ]

---------------------------------------------------------------------------
(* The misc non-shipment detector (src/audits/misc_nonship.py).  The       *)
(* amount of a charge is counted in mills, misc_confidence in hundredths.  *)

\* the pay-type keys in the order of the dictionary, each with its category
MISC_PAYTYPE_MAP == <<
    <<"other4", "Misc Adjustment">>, <<"other3", "Misc Adjustment">>,
    <<"adjustment", "Manual Adjustment">>, <<"miscfee", "Misc Fee">>,
    <<"paperinvoice", "Paper Invoice Fee">>, <<"dutytax", "Duties/Taxes">>,
    <<"addresscorrection", "Address Correction">> >>

MISC_SCORE_THRESHOLD == 3

\* parse_date_safe for a date cell: NaT stays NaT, a date in the year 1900 becomes NaT
parse_date_safe(d) ==
    IF d = NaT THEN NaT
    ELSE IF CivilFromDays(d)[1] = 1900 THEN NaT ELSE d

\* re.match(r'^(\d{12}|\d{15}|\d{22})$', str(x).strip())
is_valid_tracking(x) ==
    LET s == Strip(x)
    IN  /\ Len(s) \in {12, 15, 22}
        /\ \A i \in 1..Len(s) : IsDigit(CharAt(s, i))

RECURSIVE get_column(_, _, _)
\* get_column: the cell of the first of the names that is a column, else the default
get_column(row, possible_names, default) ==
    IF possible_names = <<>> THEN default
    ELSE IF Head(possible_names) \in DOMAIN row THEN row[Head(possible_names)]
    ELSE get_column(row, Tail(possible_names), default)

RECURSIVE column_text(_, _)
\* get_column(...).fillna('').astype(str)
column_text(row, possible_names) ==
    IF possible_names = <<>> THEN ""
    ELSE LET c == Head(possible_names)
         IN  IF c \in DOMAIN row
             THEN (IF NotNa(c, row[c]) THEN CellStr(c, row[c]) ELSE "")
             ELSE column_text(row, Tail(possible_names))

misc_amount_cols == << "Shipment Miscellaneouse Charge USD",
                       "Shipment Miscellaneous Charge USD", "Charge Amount USD" >>

\* amount_num: the first of the amount columns of the table, else the column amount, else 0
amount_num(row) == get_column(row, misc_amount_cols \o <<"amount">>, 0)

\* a pay type that is blank or holds a key of the pay-type table
is_paytype_in_map(pay_type) ==
    \/ Strip(pay_type) = ""
    \/ \E k \in 1..Len(MISC_PAYTYPE_MAP) : Contains(Lower(pay_type), MISC_PAYTYPE_MAP[k][1])

\* the lambda of is_paytype_misc
is_paytype_misc(pay_type) == Strip(pay_type) = "" \/ Contains(Lower(pay_type), "other4")

RECURSIVE paytype_category(_, _)
\* the loop over MISC_PAYTYPE_MAP.items(), from the entry k on
paytype_category(pay_type, k) ==
    IF k > Len(MISC_PAYTYPE_MAP) THEN "Misc Adjustment"
    ELSE IF Contains(pay_type, MISC_PAYTYPE_MAP[k][1]) THEN MISC_PAYTYPE_MAP[k][2]
    ELSE paytype_category(pay_type, k + 1)

\* a category that consults the pay-type table before the description
assign_category_by_pay_type(desc, pay_type) ==
    IF \E k \in 1..Len(MISC_PAYTYPE_MAP) : Contains(Lower(pay_type), MISC_PAYTYPE_MAP[k][1])
    THEN paytype_category(Lower(pay_type), 1)
    ELSE IF Contains(Lower(desc), "address correction") THEN "Address Correction"
    ELSE IF ContainsAny(Lower(desc), <<"dutie", "vat", "tax">>) THEN "Duties/Taxes"
    ELSE IF Contains(Lower(desc), "paper") /\ Contains(Lower(desc), "invoice")
    THEN "Paper Invoice Fee"
    ELSE "Misc Adjustment"

\* assign_category for the normalized desc and pay_type of a row
assign_category(desc, pay_type) ==
    IF Contains(Lower(desc), "address correction") THEN "Address Correction"
    ELSE IF ContainsAny(Lower(desc), <<"dutie", "vat", "tax">>) THEN "Duties/Taxes"
    ELSE IF Contains(Lower(desc), "paper") /\ Contains(Lower(desc), "invoice")
    THEN "Paper Invoice Fee"
    ELSE paytype_category(Lower(pay_type), 1)

\* the number of the flags that hold, the last one left out
flag_sum_without_last(flags) == Cardinality({k \in 1..(Len(flags) - 1) : flags[k]})

\* the number of the flags that hold
flag_sum(flags) == Cardinality({k \in 1..Len(flags) : flags[k]})

\* the five feature flags of a row, in the order of feature_cols
feature_flags(row) ==
    << Lower(Strip(column_text(row, <<"Service Type">>))) = ""
         /\ Lower(Strip(column_text(row, <<"Service Description">>))) = "",
       parse_date_safe(get_column(row, <<"Delivery Date",
                                         "Shipment Delivery Date (mm/dd/yyyy)">>, NaT)) = NaT,
       is_paytype_misc(Lower(Strip(column_text(row, <<"Pay Type">>)))),
       Strip(column_text(row, <<"Recipient Name">>)) = "",
       ~is_valid_tracking(Strip(column_text(row, <<"Tracking Number",
                                                   "Shipment Tracking Number">>))) >>

\* the classification columns normalize adds for the flags of a row
score_columns(flags) ==
    [ is_service_blank        |-> flags[1],
      is_deliv_missing        |-> flags[2],
      is_paytype_misc         |-> flags[3],
      is_shipto_missing       |-> flags[4],
      is_nonstandard_tracking |-> flags[5],
      misc_score              |-> flag_sum(flags),
      is_misc_non_shipment    |-> flag_sum(flags) >= MISC_SCORE_THRESHOLD,
      misc_confidence         |-> (flag_sum(flags) * 100) \div Len(flags) ]

\* normalize for one row: the row with the columns the detector adds to it
normalize_row(row) ==
    row @@ score_columns(feature_flags(row))
    @@ [ desc          |-> Lower(Strip(column_text(row, <<"Charge Description">>))),
         pay_type      |-> Lower(Strip(column_text(row, <<"Pay Type">>))),
         tracking      |-> Strip(column_text(row, <<"Tracking Number",
                                                    "Shipment Tracking Number">>)),
         amount_num    |-> amount_num(row),
         misc_category |-> assign_category(
                               Lower(Strip(column_text(row, <<"Charge Description">>))),
                               Lower(Strip(column_text(row, <<"Pay Type">>)))) ]

\* normalize: the classification of every row of the table
normalize(t) == [i \in 1..Len(t) |-> normalize_row(t[i])]

is_queued(r) == r.is_misc_non_shipment

RECURSIVE SumAmounts(_)
SumAmounts(q) == IF q = <<>> THEN 0 ELSE Head(q).amount_num + SumAmounts(Tail(q))

queue_of_category(q, category) ==
    SelectSeq(q, LAMBDA r : r.misc_category = category)

\* the rollup by category of the queue q, as a set of lines
by_category(q) ==
    { [ misc_category |-> c,
        count |-> Len(queue_of_category(q, c)),
        total |-> SumAmounts(queue_of_category(q, c)) ] :
      c \in {q[i].misc_category : i \in 1..Len(q)} }

\* the outputs of the misc detector for the normalized table and its queue q
misc_views(dfn, q) ==
    [ normalized  |-> dfn,
      queue       |-> q,
      by_category |-> by_category(q),
      summary     |-> [count_misc |-> Len(q), sum_misc |-> SumAmounts(q)],
      warning     |-> FALSE ]

\* build_misc_views for the normalized table
build_misc_views(dfn) == misc_views(dfn, SelectSeq(dfn, is_queued))

\* the misc outputs run_full_audit starts from, and keeps when the detector raises
no_misc_views(warning) ==
    [ normalized  |-> <<>>,
      queue       |-> <<>>,
      by_category |-> {},
      summary     |-> [count_misc |-> 0, sum_misc |-> 0],
      warning     |-> warning ]

---------------------------------------------------------------------------
(* The orchestrator run_full_audit and the steps of the application.       *)

\* the days the application may be run on: 2024-01-10, 2024-01-16, 2024-01-17, 2024-02-01
Todays == { DaysFromCivil(2024, 1, 10), DaysFromCivil(2024, 1, 16),
            DaysFromCivil(2024, 1, 17), DaysFromCivil(2024, 2, 1) }

\* the number of times the application calls run_full_audit on its table
MaxRuns == 2

\* the summary of a run that returned none
no_summary ==
    [ total_charges |-> 0, total_savings |-> 0, affected_shipments |-> 0,
      total_shipments |-> 0, savings_rate |-> <<0, 1>>, affected_rate |-> <<0, 1>> ]

\* the state before run_full_audit is called on the table t
Start(t) ==
    /\ df = t
    /\ pc = "start"
    /\ residential_df = <<>>
    /\ main_audit_df = <<>>
    /\ parsed = <<>>
    /\ findings = <<>>
    /\ summary = no_summary
    /\ misc_charges = no_misc_views(FALSE)
    /\ _class = <<>>
    /\ emitted = <<>>
    /\ runs = <<>>
    /\ actionable = <<>>
    /\ today = 0
    /\ status = <<>>
    /\ filing_summary = <<>>

RECURSIVE SumColumn(_, _)
\* original_df[column].sum()
SumColumn(t, column) ==
    IF t = <<>> THEN 0 ELSE Head(t)[column] + SumColumn(Tail(t), column)

\* original_df['Total Charges'] raises KeyError: the frame has no such column; columns
\* are the columns of the split frame, which an empty pool keeps
summary_raises(columns) == "Total Charges" \notin columns

\* a rate as the fraction <<numerator, denominator>> of its percentage
rate(part, whole) == IF whole > 0 THEN <<part * 100, whole>> ELSE <<0, 1>>

\* the dictionary of calculate_summary for its four counts
summary_of(total_charges, total_savings, affected_shipments, total_shipments) ==
    [ total_charges      |-> total_charges,
      total_savings      |-> total_savings,
      affected_shipments |-> affected_shipments,
      total_shipments    |-> total_shipments,
      savings_rate       |-> rate(total_savings, total_charges),
      affected_rate      |-> rate(affected_shipments, total_shipments) ]

\* a summary that counts the charges and the shipments of the whole input table
calculate_summary_of_input(original_df, fs) ==
    summary_of(SumColumn(df, "Total Charges"),
               SumRefunds(fs),
               Cardinality({fs[k].tracking_number : k \in 1..Len(fs)}),
               Len(df))

\* calculate_summary(original_df, findings_df), when it does not raise
calculate_summary(original_df, fs) ==
    summary_of(SumColumn(original_df, "Total Charges"),
               SumRefunds(fs),
               Cardinality({fs[k].tracking_number : k \in 1..Len(fs)}),
               Len(original_df))

\* a finding for a queued misc charge
misc_finding(r) ==
    [ error_type      |-> "Misc Charge",
      tracking_number |-> r.tracking,
      date            |-> "",
      carrier         |-> "",
      service_type    |-> "",
      dispute_reason  |-> r.misc_category,
      refund_estimate |-> r.amount_num,
      notes           |-> "" ]

\* the findings of the three detectors followed by one per queued misc charge
core_findings_with_misc(main) ==
    check_late_deliveries(main) \o check_duplicate_tracking(main)
    \o check_disputable_surcharges(main)
    \o [k \in 1..Len(SelectSeq(normalize(main), is_queued)) |->
          misc_finding(SelectSeq(normalize(main), is_queued)[k])]

\* the findings list of run_full_audit for the main pool
core_findings(main) ==
    check_late_deliveries(main) \o check_duplicate_tracking(main)
    \o check_disputable_surcharges(main)

\* the frame the caller would hold if detect_residential_surcharges wrote its two
\* columns to the frame it was given
input_written_in_place(t) == detect_residential_surcharges(t)

\* the frame the caller holds after the call: detect_residential_surcharges writes its
\* columns to df.copy(), the misc detector reads df.copy(deep=True)
input_after_run(t) == t

\* the misc outputs of the run: those of build_misc_views(normalize(df)), or the empty
\* ones the run starts from when the detector raised
misc_outputs(t, misc_raised) ==
    IF misc_raised THEN no_misc_views(TRUE) ELSE build_misc_views(normalize(t))

\* the end of run_full_audit for its pools and its findings list fs: the misc outputs
\* (whether the misc detector raises is an input of the step), then the summary and
\* the returned dictionary
FinishAudit(split, main, fs) ==
    /\ residential_df' = SelectSeq(split, IsResidentialRow)
    /\ main_audit_df' = main
    /\ parsed' = [i \in 1..Len(main) |-> evaluated_surcharges(main[i])]
    /\ _class' = line_classes(main)
    /\ emitted' = AllRowFindings(main, 1)
    /\ findings' = fs
    /\ \E misc_raised \in BOOLEAN : misc_charges' = misc_outputs(df, misc_raised)
    /\ IF summary_raises(Columns(split))
       THEN /\ summary' = no_summary
            /\ runs' = runs
            /\ pc' = "raised"
       ELSE /\ summary' = calculate_summary(main, fs)
            /\ runs' = Append(runs, [ input |-> df, findings |-> fs,
                                      summary |-> calculate_summary(main, fs),
                                      misc_warning |-> misc_charges'.warning ])
            /\ pc' = "audited"

\* run_full_audit on the pools of the split frame
AuditPools(split, main) == FinishAudit(split, main, core_findings(main))

\* run_full_audit: split the table, run the three detectors on the main pool, then the
\* misc detector on a copy of the table, then the summary
RunFullAudit ==
    /\ pc \in {"start", "audited"}
    /\ Len(runs) < MaxRuns
    /\ AuditPools(detect_residential_surcharges(df),
                  SelectSeq(detect_residential_surcharges(df), IsMainRow))
    /\ df' = input_after_run(df)
    /\ UNCHANGED <<actionable, today, status, filing_summary>>

\* the application takes the actionable findings of the audit
GetActionable ==
    /\ pc = "audited"
    /\ actionable' = get_actionable_errors(findings)
    /\ pc' = "actionable"
    /\ UNCHANGED <<df, residential_df, main_audit_df, parsed, _class, emitted, findings,
                   summary, misc_charges, runs, today, status, filing_summary>>

\* the application classifies the actionable findings by filing window, on the day now
FilterByFilingWindow ==
    /\ pc = "actionable"
    /\ \E now \in Todays :
          /\ today' = now
          /\ status' = filter_by_filing_window(actionable, now)
          /\ filing_summary' = filing_window_summary(actionable, filter_by_filing_window(actionable, now))
    /\ pc' = "filed"
    /\ UNCHANGED <<df, residential_df, main_audit_df, parsed, _class, emitted, findings,
                   summary, misc_charges, runs, actionable>>

Next == RunFullAudit \/ GetActionable \/ FilterByFilingWindow

---------------------------------------------------------------------------
(* Scenarios: the tables the specifications start from.                    *)

\* the tables of 1..n rows drawn from the set rows
Tables(rows, n) == UNION {[1..k -> rows] : k \in 1..n}

\* ---- residential routing ----
MaxResRows == 1

ResRow(details, charge_desc, res_col, recipient, shipper) ==
    ("Tracking Number" :> "T1") @@ ("Carrier" :> "FedEx") @@ ("Service Type" :> "SG")
    @@ ("Total Charges" :> Dollars(25)) @@ ("Surcharge_Details" :> details)
    @@ ("Charge Description" :> charge_desc) @@ ("Residential Surcharge" :> res_col)
    @@ ("Recipient Name" :> recipient) @@ ("Shipper Name" :> shipper)

ResRows ==
    { ResRow(d, c, r, to, from) :
        d \in {NaN, "Residential Surcharge: $4.50", "Residential: $4.50"},
        c \in {NaN, "Residential Delivery"},
        r \in {0, Cents(450)},
        to \in {"TARGET STORE 12", "JOHN SMITH"},
        from \in {"ACME LLC", "JANE DOE"} }

InitRes == \E t \in Tables(ResRows, MaxResRows) : Start(t)

\* ---- duplicate tracking ----
MaxDupRows == 3

\* a table with the Service Type column only
DupRowA(tracking, net, service_type) ==
    ("Tracking Number" :> tracking) @@ ("Service Type" :> service_type)
    @@ ("Total Charges" :> net)

\* a table with the Service Description column as well
DupRowB(tracking, net, service_type, service_desc) ==
    DupRowA(tracking, net, service_type) @@ ("Service Description" :> service_desc)

DupRowsA ==
    { DupRowA("T1", net, st) : net \in {Dollars(50), Dollars(30)}, st \in {"SG", "RMGR"} }
    \cup { DupRowA("T-2", net, "SG") : net \in {Dollars(50), Dollars(30)} }
    \cup { DupRowA("t2", Dollars(50), "SG") }

DupRowsB ==
    { DupRowB("T1", Dollars(50), st, sd) :
        st \in {"SG", "RMGR"},
        sd \in {"International Ground", "Ground Return Manager", NaN} }

InitDup ==
    \E t \in Tables(DupRowsA, MaxDupRows) \cup Tables(DupRowsB, MaxDupRows) : Start(t)

\* ---- late deliveries ----
MaxLateRows == 1

Monday == DaysFromCivil(2024, 3, 4)

LateRow(carrier, service_type, service_desc, ship, delivery) ==
    ("Tracking Number" :> "T1") @@ ("Carrier" :> carrier) @@ ("Service Type" :> service_type)
    @@ ("Service Description" :> service_desc) @@ ("Shipment Date" :> ship)
    @@ ("Delivery Date" :> delivery) @@ ("Total Charges" :> Dollars(60))

LateRows ==
    { LateRow("FedEx", st, sd, ship, del) :
        st \in {"PO", "2D"},
        sd \in {"FedEx Priority Overnight", "FedEx 2Day"},
        ship \in {Monday, Monday + 4},
        del \in {Monday + 1, Monday + 2, Monday + 3, Monday + 7, NaT} }
    \cup
    { LateRow("UPS", "Next Day Air", NaN, Monday, del) :
        del \in {Monday + 1, Monday + 2, Monday + 3, NaT} }

InitLate == \E t \in Tables(LateRows, MaxLateRows) : Start(t)

\* ---- disputable surcharges ----

\* a row of a table with the surcharge detail text, three discrete surcharge columns,
\* dimensions, weight and net charge; recipient and shipper are both businesses
SurRow(service_type, ship, details, cols, dims, wt, net, base) ==
    ("Tracking Number" :> "T1") @@ ("Carrier" :> "FedEx") @@ ("Service Type" :> service_type)
    @@ ("Shipment Date" :> ship) @@ ("Surcharge_Details" :> details)
    @@ ("Fuel Surcharge" :> cols[1]) @@ ("Additional Handling" :> cols[2])
    @@ ("Peak Additional Handling" :> cols[3])
    @@ ("Length" :> dims[1]) @@ ("Width" :> dims[2]) @@ ("Height" :> dims[3])
    @@ ("Actual Weight" :> wt) @@ ("Net Charge" :> net) @@ ("Total Charges" :> net)
    @@ ("Base Rate" :> base)
    @@ ("Recipient Name" :> "TARGET STORE 12") @@ ("Shipper Name" :> "ACME LLC")

NoCols == <<0, 0, 0>>
July == DaysFromCivil(2024, 7, 15)
December == DaysFromCivil(2024, 12, 16)

CanonLabels == {
    "DAS Residential", "Delivery Area Surcharge - Residential", "Residential Surcharge",
    "Demand Additional Handling", "Demand Additional Handling - Package",
    "Additional Handling", "Demand Oversize", "Oversize", "Peak Additional Handling",
    "Peak Oversize", "Peak Residential", "Peak Surcharge", "Address Correction - DAS Residential",
    "demand surcharge - oversize", "Large Package", "AHS" }

CanonRows ==
    { SurRow("PO", ship, label \o ": $12.00", NoCols, <<20, 15, 10>>, 100,
             Dollars(100), 0) :
        label \in CanonLabels, ship \in {July, December} }
    \cup
    { SurRow("PO", ship, NaN, <<0, 0, Dollars(12)>>, <<20, 15, 10>>, 100, Dollars(100), 0) :
        ship \in {July, December} }

\* length, width and height as the table gives them
DimTriples == {
    <<20, 15, 10>>, <<50, 20, 20>>, <<48, 30, 10>>, <<45, 20, 10>>, <<45, 20, 11>>,
    <<49, 10, 10>>, <<40, 31, 1>>, <<0, 0, 0>>, <<20, 0, 0>>, <<10, 15, 20>> }

AHRows ==
    { SurRow(st, July, rec[1], rec[2], dims, wt, Dollars(100), 0) :
        st \in {"PO"},
        rec \in { <<"Additional Handling: $12.00", NoCols>>,
                  <<NaN, <<0, Dollars(12), 0>> >> },
        dims \in DimTriples,
        wt \in {100, 499, 500, 600} }
    \cup
    { SurRow("RMGR", July, "Additional Handling: $12.00", NoCols, dims, 100, Dollars(100), 0) :
        dims \in {<<20, 15, 10>>, <<50, 20, 20>>} }

FuelRows ==
    { SurRow(st, July, rec[1], rec[2], <<20, 15, 10>>, 100, net, base) :
        st \in {"PO", "IP"},
        rec \in { <<"Fuel Surcharge: $40.00", NoCols>>, <<"Fuel Surcharge: $30.00", NoCols>>,
                  <<"Fuel Surcharge: $2.70", NoCols>>, <<NaN, <<Dollars(60), 0, 0>> >> },
        net \in {Dollars(100), Dollars(200), Dollars(9), 0},
        base \in {0, Dollars(100)} }

\* the duty and tax line of an international shipment: the same tracking number, no
\* surcharge
DutyLine == SurRow("IP", July, NaN, NoCols, <<0, 0, 0>>, 0, Dollars(100), 0)

InitSur ==
    \E t \in { <<r>> : r \in CanonRows \cup AHRows \cup FuelRows }
             \cup { <<r, DutyLine>> : r \in FuelRows } : Start(t)

\* ---- credit lines: negative amounts ----

\* a FedEx Priority Overnight shipment delivered two days late, with the total charged
CreditLateRow(total) ==
    ("Tracking Number" :> "T1") @@ ("Carrier" :> "FedEx") @@ ("Service Type" :> "PO")
    @@ ("Service Description" :> "FedEx Priority Overnight") @@ ("Shipment Date" :> Monday)
    @@ ("Delivery Date" :> Monday + 3) @@ ("Surcharge_Details" :> NaN)
    @@ ("Discount" :> 0) @@ ("Total Charges" :> total)

\* a line that carries a discount or credit, delivered in time
CreditDupRow(tracking, discount, total) ==
    ("Tracking Number" :> tracking) @@ ("Carrier" :> "FedEx") @@ ("Service Type" :> "PO")
    @@ ("Service Description" :> "FedEx Priority Overnight") @@ ("Shipment Date" :> Monday)
    @@ ("Delivery Date" :> Monday + 1) @@ ("Surcharge_Details" :> NaN)
    @@ ("Discount" :> discount) @@ ("Total Charges" :> total)

\* a line delivered in time whose surcharge detail text is details
CreditSurRow(details) ==
    ("Tracking Number" :> "T2") @@ ("Carrier" :> "FedEx") @@ ("Service Type" :> "PO")
    @@ ("Service Description" :> "FedEx Priority Overnight") @@ ("Shipment Date" :> Monday)
    @@ ("Delivery Date" :> Monday + 1) @@ ("Surcharge_Details" :> details)
    @@ ("Discount" :> 0) @@ ("Total Charges" :> Dollars(100))

CreditRows ==
    { CreditLateRow(total) : total \in {Dollars(60), Dollars(0 - 20), 0} }
    \cup { CreditDupRow("T3", d, t) : d \in {Dollars(0 - 50), 0},
                                      t \in {Dollars(0 - 50), Dollars(50)} }
    \cup { CreditSurRow(details) :
             details \in { "Address Correction: $5.00", "Address Correction: $-5.00",
                           "$-5.00", "Return Fee: -10.00",
                           "Address Correction: $-5.00 | Address Correction: $-5.00" } }

MaxCreditRows == 2

InitCredit == \E t \in Tables(CreditRows, MaxCreditRows) : Start(t)

\* ---- tables with columns missing ----

\* a FedEx Priority Overnight line delivered two days late that carries an address
\* correction fee
ColsRow(tracking, total) ==
    ("Tracking Number" :> tracking) @@ ("Carrier" :> "FedEx") @@ ("Service Type" :> "PO")
    @@ ("Service Description" :> "FedEx Priority Overnight") @@ ("Shipment Date" :> Monday)
    @@ ("Delivery Date" :> Monday + 3)
    @@ ("Surcharge_Details" :> "Address Correction: $5.00") @@ ("Total Charges" :> total)

\* the columns every table of the family has, and the ones a table may lack
KeptColumns == {"Service Type", "Service Description", "Surcharge_Details"}
OptionalColumns == {"Total Charges", "Tracking Number", "Carrier", "Shipment Date",
                    "Delivery Date"}

\* the row with the columns cols only
Restrict(row, cols) == [c \in cols |-> row[c]]

ColsRows(cols) ==
    { Restrict(ColsRow(tracking, total), KeptColumns \cup cols) :
        tracking \in {"T1", "T2"}, total \in {Dollars(60)} }

MaxColsRows == 2

InitCols ==
    \E cols \in SUBSET OptionalColumns :
        \E t \in Tables(ColsRows(cols), MaxColsRows) : Start(t)

\* ---- misc non-shipment charges ----

Year1900 == DaysFromCivil(1900, 1, 1)

\* a line of a FedEx export: shipped on the Monday, charged 60 dollars, with a misc
\* charge amount of 42 dollars
MiscRow(service_type, service_desc, pay_type, delivery, recipient, tracking, charge_desc) ==
    ("Tracking Number" :> tracking) @@ ("Carrier" :> "FedEx")
    @@ ("Service Type" :> service_type) @@ ("Service Description" :> service_desc)
    @@ ("Pay Type" :> pay_type) @@ ("Shipment Date" :> Monday)
    @@ ("Delivery Date" :> delivery) @@ ("Recipient Name" :> recipient)
    @@ ("Charge Description" :> charge_desc) @@ ("Charge Amount USD" :> Dollars(42))
    @@ ("Total Charges" :> Dollars(60))

\* lines that differ in what the five feature flags look at
MiscFlagRows ==
    { MiscRow(st, sd, pt, del, to, tn, NaN) :
        st \in {NaN, "PO"},
        sd \in {NaN, "FedEx Priority Overnight"},
        pt \in {NaN, "Other4", "Package", "Adjustment"},
        del \in {Monday + 3, NaT, Year1900},
        to \in {NaN, "ACME Corp"},
        tn \in {"123456789012", "5416334"} }

\* lines that differ in what the category looks at
MiscCategoryRows ==
    { MiscRow(NaN, NaN, pt, Year1900, NaN, "ABC123", cd) :
        pt \in {NaN, "Other4", "Package", "DutyTax", "PaperInvoice", "AddressCorrection"},
        cd \in { NaN, "Import VAT adjustment", "Address Correction", "Paper Invoice Fee",
                 "Address correction tax", "Paper copy", "Customs duty",
                 "Duties and fees", "Private invoice" } }

\* tracking numbers of other lengths and makes
MiscTrackingRows ==
    { MiscRow("PO", "FedEx Priority Overnight", "Package", Monday + 1, "ACME Corp", tn, NaN) :
        tn \in { "123456789012345", "1234567890123456789012", "1234567890123",
                 "ABC123456789", " 123456789012 ", "12345678901234567890", NaN } }

\* a plain shipment delivered late, a late shipment without recipient that carries a
\* misc pay type and a short tracking number, and a duty line
MiscMixRows == {
    MiscRow("PO", "FedEx Priority Overnight", "Package", Monday + 3, "ACME Corp",
            "123456789012", NaN),
    MiscRow("PO", "FedEx Priority Overnight", "Other4", Monday + 3, NaN, "5416334", NaN),
    MiscRow(NaN, NaN, "DutyTax", Year1900, NaN, "ABC123", "Import VAT adjustment") }

MaxMiscRows == 2

\* every line alone, and the tables of the three mixed lines
InitMisc ==
    \E t \in { <<r>> : r \in MiscFlagRows \cup MiscCategoryRows \cup MiscTrackingRows }
             \cup Tables(MiscMixRows, MaxMiscRows) : Start(t)

\* ---- the two pools and the summary ----

PoolRow(tracking, total, details, recipient) ==
    ("Tracking Number" :> tracking) @@ ("Carrier" :> "FedEx") @@ ("Service Type" :> "SG")
    @@ ("Total Charges" :> total) @@ ("Surcharge_Details" :> details)
    @@ ("Recipient Name" :> recipient) @@ ("Shipper Name" :> "ACME LLC")

\* two home deliveries, a business delivery billed a residential surcharge, a line with
\* an address correction fee, and a line without surcharges
PoolRows == {
    PoolRow("R1", Dollars(25), "Residential Surcharge: $4.50", "JOHN SMITH"),
    PoolRow("R2", Dollars(30), "Residential Surcharge: $4.50 | Address Correction: $5.00",
            "JANE DOE"),
    PoolRow("B1", Dollars(40), "Residential Surcharge: $4.50", "TARGET STORE 12"),
    PoolRow("A1", Dollars(15), "Address Correction: $5.00", "JOHN SMITH"),
    PoolRow("P1", Dollars(10), NaN, "TARGET STORE 12") }

MaxPoolRows == 3

InitPool == \E t \in Tables(PoolRows, MaxPoolRows) : Start(t)

\* ---- duplicate tracking: lines of several carriers ----

CarrierRow(carrier, tracking, net) ==
    ("Tracking Number" :> tracking) @@ ("Carrier" :> carrier) @@ ("Service Type" :> "SG")
    @@ ("Total Charges" :> net)

CarrierRows ==
    { CarrierRow(carrier, tracking, net) :
        carrier \in {"FedEx", "FEDEX", "UPS"},
        tracking \in {"T1", "t-1", "T2"},
        net \in {Dollars(50)} }

MaxCarrierRows == 2

InitCarrier == \E t \in Tables(CarrierRows, MaxCarrierRows) : Start(t)

\* ---- the actionable findings ----
MaxFindings == 2

\* a finding of the kind with the refund estimate
AnyFinding(error_type, refund_estimate) ==
    [ error_type |-> error_type, tracking_number |-> "T1", date |-> "2024-01-01",
      carrier |-> "FedEx", service_type |-> "PO", dispute_reason |-> "",
      refund_estimate |-> refund_estimate, notes |-> "Actual: 2024-01-01" ]

\* findings of the three core checks and of the other checks of the engine, with
\* refund estimates on both sides of the two thresholds
AnyFindings ==
    { AnyFinding(error_type, refund_estimate) :
        error_type \in { "Late Delivery", "Duplicate Tracking", "Disputable Surcharge",
                         "DIM Weight Overcharge", "High Surcharges" },
        refund_estimate \in { 0, Cents(999), Dollars(10), Cents(4999), Dollars(50),
                              Dollars(60) } }

\* the state in which the application holds the findings fs of an audit
Audited(fs) ==
    /\ df = <<>>
    /\ pc = "audited"
    /\ residential_df = <<>>
    /\ main_audit_df = <<>>
    /\ parsed = <<>>
    /\ findings = fs
    /\ summary = no_summary
    /\ misc_charges = no_misc_views(FALSE)
    /\ _class = <<>>
    /\ emitted = <<>>
    /\ runs = <<>>
    /\ actionable = <<>>
    /\ today = 0
    /\ status = <<>>
    /\ filing_summary = <<>>

InitActionable == \E fs \in Tables(AnyFindings, MaxFindings) : Audited(fs)

NextActionable == GetActionable \/ FilterByFilingWindow

\* ---- the late-delivery guards ----

\* a late-delivery row whose dates are in the columns with the (mm/dd/yyyy) names
SlaAltRow(carrier, service_type, service_desc, ship, delivery) ==
    ("Tracking Number" :> "T1") @@ ("Carrier" :> carrier) @@ ("Service Type" :> service_type)
    @@ ("Service Description" :> service_desc)
    @@ ("Shipment Date (mm/dd/yyyy)" :> ship)
    @@ ("Shipment Delivery Date (mm/dd/yyyy)" :> delivery)
    @@ ("Total Charges" :> Dollars(60))

\* the ship dates: a Monday, a Thursday, a Friday, a Saturday, none
SlaShipDates == {Monday, Monday + 3, Monday + 4, Monday + 5, NaT}

\* the delivery dates, from the Tuesday to the Wednesday of the week after, or none
SlaDeliveryDates == {Monday + 1, Monday + 2, Monday + 4, Monday + 7, Monday + 8, Monday + 9, NaT}

SlaRows ==
    { LateRow(c, st, sd, ship, del) :
        c \in {"FedEx", "UPS"},
        st \in {"PO", " es ", "SG", "Next Day Air"},
        sd \in {"FedEx Priority Overnight", "FedEx 2Day", "FedEx Ground", NaN},
        ship \in SlaShipDates,
        del \in SlaDeliveryDates }
    \cup
    { SlaAltRow("FedEx", "PO", "FedEx 2Day", ship, del) :
        ship \in {Monday + 4, NaT}, del \in {Monday + 8, Monday + 9} }

\* the rows of the tables of more than one row
SlaMixRows ==
    { LateRow("FedEx", "PO", "FedEx Priority Overnight", Monday + 4, Monday + 8),
      LateRow("FedEx", "SG", "FedEx Priority Overnight", Monday + 4, Monday + 8),
      LateRow("UPS", "Next Day Air", NaN, Monday + 4, Monday + 7) }

MaxSlaRows == 2

InitSla ==
    \E t \in {<<r>> : r \in SlaRows} \cup Tables(SlaMixRows, MaxSlaRows) : Start(t)

\* ---- the classes of the lines ----

\* a line of a table with the amount columns
ClassRow(tracking, freight, misc, duty, discount, net) ==
    ("Tracking Number" :> tracking) @@ ("Freight Charges" :> freight)
    @@ ("Surcharges" :> misc) @@ ("Duty and Tax" :> duty) @@ ("Discount" :> discount)
    @@ ("Total Charges" :> net)

\* a line of a table that has the total only
TotalRow(tracking, net) == ("Tracking Number" :> tracking) @@ ("Total Charges" :> net)

\* half a cent, below the tolerance
HalfCent == Cents(1) \div 2

ClassRows ==
    { ClassRow("T1", f, m, d, c, n) :
        f \in {0, HalfCent, Dollars(40), 0 - Dollars(40)},
        m \in {0, Dollars(5)},
        d \in {0, HalfCent, Dollars(10), 0 - Dollars(10)},
        c \in {0, 0 - Dollars(5)},
        n \in {0, Dollars(50), 0 - Dollars(20)} }
    \cup { TotalRow("T1", n) : n \in {0, HalfCent, Dollars(50), 0 - Dollars(20)} }

\* the lines of the tables of more than one line: a freight line, a duty line, a duty
\* line with a discount, a credit
ClassMixRows ==
    { ClassRow("T1", Dollars(40), 0, 0, 0, Dollars(40)),
      ClassRow("T2", Dollars(40), 0, 0, 0, Dollars(40)),
      ClassRow("T1", 0, 0, Dollars(10), 0, Dollars(10)),
      ClassRow("T1", 0, 0, Dollars(10), 0 - Dollars(5), Dollars(5)),
      ClassRow("T1", 0, 0, 0, 0, 0 - Dollars(20)) }

MaxClassRows == 2

InitClass ==
    \E t \in {<<r>> : r \in ClassRows} \cup Tables(ClassMixRows, MaxClassRows) : Start(t)

\* ---- the groups of the duplicate detector ----

\* a freight line of 40 dollars and a duty line of 10 dollars
FreightLine(tracking) == ClassRow(tracking, Dollars(40), 0, 0, 0, Dollars(40))
DutyOnlyLine(tracking) == ClassRow(tracking, 0, 0, Dollars(10), 0, Dollars(10))

GroupRows ==
    { FreightLine("T1"), FreightLine("t-1"), DutyOnlyLine("T1"), FreightLine("T2"),
      FreightLine(" - ") }

\* freight lines whose tracking number is empty or missing
GroupBlankRows == { FreightLine(""), FreightLine(NaN) }

\* two tables of two groups: T1 next to the lines without tracking number, T1 next to T2
GroupPairTables ==
    { <<FreightLine("T1"), FreightLine("t-1"), FreightLine(" - "), FreightLine(" - ")>>,
      <<FreightLine("T1"), FreightLine("T2"), FreightLine("t-1"), FreightLine("T2")>> }

MaxGroupRows == 3

InitGroup ==
    \E t \in Tables(GroupRows, MaxGroupRows) \cup GroupPairTables
              \cup [1..2 -> GroupBlankRows] : Start(t)

\* ---- the weight rules ----

\* a row with one weight surcharge of 10 dollars, dimensions in inches, weights in tenths
\* of a pound
WeightRow(tracking, service_type, details, dims, actual_wt, billed_wt) ==
    ("Tracking Number" :> tracking) @@ ("Carrier" :> "FedEx")
    @@ ("Service Type" :> service_type) @@ ("Surcharge_Details" :> details)
    @@ ("Length" :> dims[1]) @@ ("Width" :> dims[2]) @@ ("Height" :> dims[3])
    @@ ("Actual Weight" :> actual_wt) @@ ("Billed Weight" :> billed_wt)
    @@ ("Total Charges" :> Dollars(100))

WeightLabels == {"Weight Correction", "DIM Weight Adjustment", "Overweight"}

\* 20 x 15 x 10 in is 3000 cubic inches: 22 lb by 139, 19 lb by 166
WeightDims == {<<20, 15, 10>>, <<10, 20, 15>>, <<20, 15, 0>>, <<0, 0, 0>>}

\* the divisor by service type; the dimensions and the rounding of the actual weight by
\* label; the Overweight threshold of 150 lb
WeightRows ==
    { WeightRow("T1", st, "Weight Correction: $10.00", <<20, 15, 10>>, 100, billed) :
        st \in {"PO", "International Priority", "Intl Economy", "IP"},
        billed \in {200, 205, 230, 235} }
    \cup
    { WeightRow("T1", "PO", label \o ": $10.00", dims, actual, billed) :
        label \in WeightLabels,
        dims \in WeightDims,
        actual \in {100, 205, 215},
        billed \in {0, 230, 235} }
    \cup
    { WeightRow("T1", "PO", label \o ": $10.00", dims, actual, billed) :
        label \in {"Weight Correction", "Overweight"},
        dims \in {<<20, 15, 10>>, <<0, 0, 0>>},
        actual \in {0, 100, 1499, 1500, 1600},
        billed \in {0, 235, 1620} }

\* the rows of the tables of more than one row
WeightMixRows ==
    { WeightRow("T1", "PO", "Weight Correction: $10.00", <<20, 15, 10>>, 100, 235),
      WeightRow("T2", "PO", "Overweight: $10.00", <<20, 15, 10>>, 100, 235),
      WeightRow("T3", "PO", "Overweight: $10.00", <<0, 0, 0>>, 1600, 1620) }

MaxWeightRows == 2

InitWeight ==
    \E t \in {<<r>> : r \in WeightRows} \cup Tables(WeightMixRows, MaxWeightRows) : Start(t)

\* ---- blank and repeated surcharges ----

\* a record with the surcharge detail text and nothing else to evaluate
DetailRow(tracking, service_type, details) ==
    ("Tracking Number" :> tracking) @@ ("Carrier" :> "FedEx")
    @@ ("Service Type" :> service_type) @@ ("Surcharge_Details" :> details)
    @@ ("Total Charges" :> Dollars(100))

\* the segments of a detail text: two amounts without a label, two labelled amounts
DetailParts == {"$12.00", ": $8.00", "Return Fee: $6.00", "Redirect Fee: $9.00"}

\* the number of segments of a detail text
MaxParts == 3

RECURSIVE JoinParts(_)
\* the segments joined by '|'
JoinParts(parts) ==
    IF Len(parts) = 1 THEN parts[1] ELSE parts[1] \o "|" \o JoinParts(Tail(parts))

DetailTexts ==
    { JoinParts(parts) : parts \in Tables(DetailParts, MaxParts) }
    \cup { "- $12.00", "$12.00;.: 8.00,Fuel Surcharge $3.00",
           "Return Fee: $6.00 | Redirect Fee: $9.00 | Return Fee: $6.00 | Redirect Fee: $9.00",
           "$12.00 | $12.00 | Address Correction: $6.00 | Address Correction: $6.00" }

InitBlank ==
    \E t \in { <<DetailRow("T1", "PO", d)>> : d \in DetailTexts }
             \cup { <<DetailRow("T1", "PO", "$12.00 | " \o d), DetailRow("T2", "PO", d)>> :
                      d \in DetailParts }
             \cup { <<DetailRow("T1", "PO", "Return Fee: $6.00|Return Fee: $6.00"),
                      DetailRow(tracking, "PO", "Redirect Fee: $9.00|Redirect Fee: $9.00")>> :
                      tracking \in {"T1", "T2"} } : Start(t)

\* ---- return-manager lines ----

\* a record with its two service columns (both, or one of them) and a detail text
RmgrRow(tracking, columns, service_type, service_description, details) ==
    LET row == ("Tracking Number" :> tracking) @@ ("Carrier" :> "FedEx")
               @@ ("Service Type" :> service_type)
               @@ ("Service Description" :> service_description)
               @@ ("Surcharge_Details" :> details) @@ ("Total Charges" :> Dollars(100))
    IN  [c \in (DOMAIN row \ {"Service Type", "Service Description"}) \cup columns |-> row[c]]

RmgrServiceTypes == {NaN, " ", "RMGR", "FedEx rmgr", "SG"}

RmgrServiceDescriptions == {NaN, "RMGR", "Ground Return Manager", "Ground"}

RmgrDetails == {"$12.00", "Return Fee: $6.00|Return Fee: $6.00"}

RmgrColumns == {{"Service Type", "Service Description"}, {"Service Type"}, {"Service Description"}}

RmgrRows ==
    { RmgrRow("T1", columns, service_type, service_description, details) :
        columns \in RmgrColumns, service_type \in RmgrServiceTypes,
        service_description \in RmgrServiceDescriptions, details \in RmgrDetails }

RmgrMixRows ==
    { RmgrRow("T1", {"Service Type", "Service Description"}, "RMGR", NaN, "$12.00"),
      RmgrRow("T2", {"Service Type", "Service Description"}, "SG", "RMGR",
              "Return Fee: $6.00|Return Fee: $6.00"),
      RmgrRow("T1", {"Service Type", "Service Description"}, "SG", "Ground",
              "Return Fee: $6.00|Return Fee: $6.00") }

MaxRmgrRows == 2

InitRmgr ==
    \E t \in { <<row>> : row \in RmgrRows } \cup Tables(RmgrMixRows, MaxRmgrRows) : Start(t)

\* ---- late deliveries and their filing window ----

\* a FedEx row with the tracking number, shipped and delivered around the new year
LateClaimRow(tracking, service_type, service_desc, ship, delivery) ==
    ("Tracking Number" :> tracking) @@ ("Carrier" :> "FedEx")
    @@ ("Service Type" :> service_type) @@ ("Service Description" :> service_desc)
    @@ ("Shipment Date" :> ship) @@ ("Delivery Date" :> delivery)
    @@ ("Total Charges" :> Dollars(60))

\* a Monday and a Thursday of December 2023
LateClaimShipDates == {DaysFromCivil(2023, 12, 18), DaysFromCivil(2023, 12, 28)}

LateClaimDeliveryDates ==
    { DaysFromCivil(2023, 12, 19), DaysFromCivil(2023, 12, 21), DaysFromCivil(2023, 12, 29),
      DaysFromCivil(2024, 1, 1), DaysFromCivil(2024, 1, 2), NaT }

LateClaimRows ==
    { LateClaimRow(tracking, service_type, service_desc, ship, delivery) :
        tracking \in {"T1", "T2"}, service_type \in {"PO", "SG"},
        service_desc \in {"FedEx Priority Overnight", "FedEx 2Day", NaN},
        ship \in LateClaimShipDates, delivery \in LateClaimDeliveryDates }

LateClaimMixRows ==
    { LateClaimRow("T1", "PO", "FedEx Priority Overnight",
                   DaysFromCivil(2023, 12, 18), DaysFromCivil(2023, 12, 21)),
      LateClaimRow("T2", "PO", "FedEx Priority Overnight",
                   DaysFromCivil(2023, 12, 28), DaysFromCivil(2024, 1, 1)),
      LateClaimRow("T3", "PO", "FedEx Priority Overnight",
                   DaysFromCivil(2023, 12, 28), DaysFromCivil(2024, 1, 2)) }

MaxLateClaimRows == 2

InitLateClaim ==
    \E t \in { <<row>> : row \in LateClaimRows }
             \cup Tables(LateClaimMixRows, MaxLateClaimRows) : Start(t)

\* ---- the filing window ----
MaxClaims == 2

FilingClaim(error_type, date, notes) ==
    actionable_row([ error_type |-> error_type, tracking_number |-> "T1", date |-> date,
                     carrier |-> "FedEx", service_type |-> "PO",
                     dispute_reason |-> "", refund_estimate |-> Dollars(60), notes |-> notes ])

FilingClaims ==
    { FilingClaim("Late Delivery", date, notes) :
        date \in {"2024-01-01", "2023-06-01", ""},
        notes \in { "Expected: 2023-12-29, Actual: 2024-01-01", "Actual: 2024-01-01",
                    "Expected: 2023-12-29", "Actual: 1/1/2024", "Actual: 2024-02-30", NaN } }
    \cup
    { FilingClaim(error_type, date, "Transport: 2, Duty/Tax: 0, Landed: $100.00") :
        error_type \in {"Duplicate Tracking", "Disputable Surcharge"},
        date \in {"2024-01-01", "2023-06-01", ""} }

\* the state in which the application holds the actionable frame a
Actionable(a) ==
    /\ df = <<>>
    /\ pc = "actionable"
    /\ residential_df = <<>>
    /\ main_audit_df = <<>>
    /\ parsed = <<>>
    /\ findings = <<>>
    /\ summary = no_summary
    /\ misc_charges = no_misc_views(FALSE)
    /\ _class = <<>>
    /\ emitted = <<>>
    /\ runs = <<>>
    /\ actionable = a
    /\ today = 0
    /\ status = <<>>
    /\ filing_summary = <<>>

InitFiling == \E a \in {<<>>} \cup Tables(FilingClaims, MaxClaims) : Actionable(a)

NextFiling == FilterByFilingWindow

\* ---- the filing rules ----

\* a row of an actionable frame that has the given date columns beside Date and Notes
WindowClaim(error_type, columns, shipment_date, invoice_date, date, notes) ==
    LET row == actionable_row([ error_type |-> error_type, tracking_number |-> "T1",
                                date |-> date, carrier |-> "FedEx", service_type |-> "PO",
                                dispute_reason |-> "", refund_estimate |-> Dollars(60),
                                notes |-> notes ])
               @@ ("shipment_date" :> shipment_date) @@ ("invoice_date" :> invoice_date)
    IN  [c \in (DOMAIN row \ {"shipment_date", "invoice_date"}) \cup columns |-> row[c]]

WindowErrorTypes ==
    { "Late Delivery", "late delivery (MBG)", "Late Delivery - Damaged", "Lost Package",
      "Damaged Shipment", "Lost Duplicate", "Disputable Surcharge", "Duplicate Tracking",
      "Address Correction" }

\* no shipment date, and the shipment dates 60 and 61 days before 2024-01-16
WindowShipmentDates == {NaT, DaysFromCivil(2023, 11, 17), DaysFromCivil(2023, 11, 16)}

\* no invoice date, and the invoice dates 180 and 181 days before 2024-01-16
WindowInvoiceDates == {NaT, DaysFromCivil(2023, 7, 20), DaysFromCivil(2023, 7, 19)}

WindowDateTexts == {"", "2024-01-01", "2023-07-19"}

WindowNotes == {"Expected: 2023-12-29, Actual: 2024-01-01", "Expected: 2023-12-29"}

WindowColumns == SUBSET {"shipment_date", "invoice_date"}

WindowClaims ==
    { WindowClaim(error_type, columns, shipment_date, invoice_date, date, notes) :
        error_type \in WindowErrorTypes, columns \in WindowColumns,
        shipment_date \in WindowShipmentDates, invoice_date \in WindowInvoiceDates,
        date \in WindowDateTexts, notes \in WindowNotes }

WindowMixClaims ==
    { WindowClaim("Late Delivery - Damaged", {"shipment_date", "invoice_date"},
                  DaysFromCivil(2023, 11, 17), NaT, "2024-01-01", "Expected: 2023-12-29"),
      WindowClaim("Lost Duplicate", {"shipment_date", "invoice_date"},
                  NaT, DaysFromCivil(2023, 7, 20), "2023-07-19", "Expected: 2023-12-29"),
      WindowClaim("Address Correction", {"shipment_date", "invoice_date"},
                  DaysFromCivil(2023, 11, 16), DaysFromCivil(2023, 7, 19), "",
                  "Expected: 2023-12-29, Actual: 2024-01-01") }

MaxWindowClaims == 2

InitWindow ==
    \E a \in { <<f>> : f \in WindowClaims } \cup Tables(WindowMixClaims, MaxWindowClaims) :
        Actionable(a)

Init == InitRes \/ InitDup \/ InitLate \/ InitSur \/ InitCredit \/ InitCols \/ InitMisc
        \/ InitPool \/ InitCarrier \/ InitSla \/ InitClass \/ InitGroup \/ InitWeight
        \/ InitBlank \/ InitRmgr \/ InitLateClaim

Spec == Init /\ [][Next]_vars
SpecRes == InitRes /\ [][Next]_vars
SpecDup == InitDup /\ [][Next]_vars
SpecLate == InitLate /\ [][Next]_vars
SpecSur == InitSur /\ [][Next]_vars
SpecCredit == InitCredit /\ [][Next]_vars
SpecCols == InitCols /\ [][Next]_vars
SpecMisc == InitMisc /\ [][Next]_vars
SpecPool == InitPool /\ [][Next]_vars
SpecCarrier == InitCarrier /\ [][Next]_vars
SpecSla == InitSla /\ [][Next]_vars
SpecClass == InitClass /\ [][Next]_vars
SpecGroup == InitGroup /\ [][Next]_vars
SpecWeight == InitWeight /\ [][Next]_vars
SpecBlank == InitBlank /\ [][Next]_vars
SpecRmgr == InitRmgr /\ [][Next]_vars
SpecLateClaim == InitLateClaim /\ [][Next]_vars
SpecFiling == InitFiling /\ [][NextFiling]_vars
SpecWindow == InitWindow /\ [][NextFiling]_vars
SpecActionable == InitActionable /\ [][NextActionable]_vars
---------------------------------------------------------------------------
(* Properties.                                                             *)

\* a row of a pool without the two columns the classifier adds
Original(row) ==
    [c \in DOMAIN row \ {"has_residential_surcharge", "residential_surcharge_sources"} |-> row[c]]

Originals(t) == [k \in 1..Len(t) |-> Original(t[k])]

RecipientIsBusiness(row) == _has_business_indicators(Upper(_get_full_destination_info(row)))
ShipperIsBusiness(row) == _has_business_indicators(Upper(_get_full_shipper_info(row)))

ShouldBeReviewed(row) ==
    has_residential(row) /\ (~RecipientIsBusiness(row) \/ ~ShipperIsBusiness(row))

ShouldStayInMain(row) == ~ShouldBeReviewed(row)

\* the positions of the findings of a kind
FindingsOfType(error_type) == {k \in 1..Len(findings) : findings[k].error_type = error_type}

CarriesResidentialSurcharge(row) ==
    \/ Get(row, "Residential Surcharge", 0) # 0
    \/ LET es == parse_merged(Get(row, "Surcharge_Details", ""))
       IN  \E k \in 1..Len(es) : es[k].desc = "RESIDENTIAL SURCHARGE"

\* C2: a record that carries a residential surcharge, with a business recipient and a
\* shipper without indicator, is in the residential review pool and has no Disputable
\* Surcharge finding, however the surcharge is recorded.
C2_BusinessRecipientIsReviewed ==
    pc # "start" =>
        \A i \in 1..Len(df) :
            (/\ CarriesResidentialSurcharge(df[i])
             /\ RecipientIsBusiness(df[i])
             /\ ~ShipperIsBusiness(df[i]))
            => /\ \E k \in 1..Len(residential_df) : Original(residential_df[k]) = df[i]
               /\ \A k \in FindingsOfType("Disputable Surcharge") :
                     findings[k].tracking_number # df[i]["Tracking Number"]

\* the Duplicate Tracking findings of the tracking key tn
DuplicateFindingsOf(tn) ==
    {k \in FindingsOfType("Duplicate Tracking") :
        _normalize_tracking(findings[k].tracking_number) = tn}

TrackingKeys == {"T1", "T2"}

\* the nets of the TRANSPORT lines of the tracking key tn in the main pool
TransportNetsOf(tn) ==
    NetsOf(main_audit_df,
           RowsOfClass(main_audit_df, RowsWithKey(main_audit_df, tn, 1), "TRANSPORT", 1))

\* the group of tn is skipped: an original + return pair, or one transport + one duty line
GroupIsSkipped(tn) ==
    LET rows == RowsWithKey(main_audit_df, tn, 1)
    IN  \/ _is_original_plus_return_pair(rows)
        \/ /\ Len(RowsOfClass(main_audit_df, rows, "TRANSPORT", 1)) = 1
           /\ Len(RowsOfClass(main_audit_df, rows, "DUTY_TAX", 1)) = 1

AllEqual(s) == \A a, b \in 1..Len(s) : s[a] = s[b]

IsReturnLine(row) ==
    \/ _is_return_service(Get(row, "Service Type", ""))
    \/ _is_return_service(Get(row, "Service Description", ""))

\* C4: a tracking number with exactly two lines, exactly one of them a return service by
\* its service type or description, has no Duplicate Tracking finding.
C4_ReturnPairNotReported ==
    pc # "start" =>
        \A tn \in TrackingKeys :
            LET rows == RowsWithKey(main_audit_df, tn, 1) IN
            (Len(rows) = 2 /\ IsReturnLine(rows[1]) # IsReturnLine(rows[2]))
                => DuplicateFindingsOf(tn) = {}

\* the upper-cased label canonize matches against
LabelKey(e) == Strip(Upper(e.label))

C6_PeakLabelsResolveToPeak ==
    pc # "start" =>
        \A i \in 1..Len(parsed) : \A k \in 1..Len(parsed[i]) :
            LET e == parsed[i][k] IN
            /\ e.label = "Peak Additional Handling" => e.desc = "PEAK ADDITIONAL HANDLING"
            /\ e.label = "Peak Oversize" => e.desc = "PEAK OVERSIZE"
            /\ e.label = "Peak Residential" => e.desc = "PEAK RESIDENTIAL"

\* the Additional Handling entry of the amount was flagged with a refund of all of it
FlaggedAdditionalHandling(amount) ==
    \E k \in FindingsOfType("Disputable Surcharge") :
        /\ findings[k].dispute_reason =
              "Additional Handling charged but size/weight thresholds not met"
        /\ findings[k].refund_estimate = amount

\* no size or weight threshold of Additional Handling is met
WithinHandlingThresholds(c) ==
    /\ c.longest <= 48
    /\ c.second <= 30
    /\ c.longest + 2 * (c.second + c.third) <= 105
    /\ c.actual_wt < 500

\* C7 as stated: an Additional Handling surcharge is flagged with a full refund exactly
\* when longest <= 48, second longest <= 30, longest + girth <= 105 and weight < 50 lb.
C7_FlaggedIffWithinThresholds ==
    pc # "start" =>
        \A i \in 1..Len(parsed) : \A k \in 1..Len(parsed[i]) :
            LET e == parsed[i][k]
                c == row_context(main_audit_df[i])
            IN  e.desc = "ADDITIONAL HANDLING SURCHARGE" =>
                (FlaggedAdditionalHandling(e.amount) <=> WithinHandlingThresholds(c))

\* C7 amended: an Additional Handling surcharge of an evaluated record is flagged with a
\* full refund exactly when a dimension is present (longest > 0) and longest <= 48,
\* second longest <= 30, longest + girth <= 105 and weight < 50 lb; 20x15x10 at 10 lb is
\* flagged, 50x20x20 at 60 lb is not.
C7_FlaggedIffMeasuredAndWithin ==
    pc # "start" =>
        \A i \in 1..Len(parsed) : \A k \in 1..Len(parsed[i]) :
            LET e == parsed[i][k]
                c == row_context(main_audit_df[i])
                dims == <<main_audit_df[i]["Length"], main_audit_df[i]["Width"],
                          main_audit_df[i]["Height"]>>
                wt == main_audit_df[i]["Actual Weight"]
            IN  e.desc = "ADDITIONAL HANDLING SURCHARGE" =>
                /\ FlaggedAdditionalHandling(e.amount)
                      <=> (c.longest > 0 /\ WithinHandlingThresholds(c))
                /\ (dims = <<20, 15, 10>> /\ wt = 100) => FlaggedAdditionalHandling(e.amount)
                /\ (dims = <<50, 20, 20>> /\ wt = 600) => ~FlaggedAdditionalHandling(e.amount)

\* C7 witness: a record without dimensions carried an Additional Handling surcharge and
\* was not flagged
C7_Witness ==
    /\ pc = "audited"
    /\ \E i \in 1..Len(parsed) : \E k \in 1..Len(parsed[i]) :
          /\ parsed[i][k].desc = "ADDITIONAL HANDLING SURCHARGE"
          /\ row_context(main_audit_df[i]).longest = 0
          /\ WithinHandlingThresholds(row_context(main_audit_df[i]))
          /\ ~FlaggedAdditionalHandling(parsed[i][k].amount)

\* the fuel entry of the amount was flagged with a refund of 30% of it
FlaggedFuel(amount) ==
    \E k \in FindingsOfType("Disputable Surcharge") :
        /\ StartsWith(findings[k].dispute_reason, "Fuel surcharge unusually high")
        /\ 10 * findings[k].refund_estimate = 3 * amount

\* C8: a fuel surcharge is flagged, with a refund of 30% of it, exactly when it is
\* strictly more than 30% of the reference net charge (here: for a positive reference).
C8_FuelFlaggedIffAbove30Percent ==
    pc # "start" =>
        \A i \in 1..Len(parsed) : \A k \in 1..Len(parsed[i]) :
            LET e == parsed[i][k]
                reference == fuel_reference(main_audit_df, main_audit_df[i])
            IN  (e.desc = "FUEL SURCHARGE" /\ reference > 0) =>
                (FlaggedFuel(e.amount) <=> 100 * e.amount > 30 * reference)

Thursday == Monday + 3

\* a FedEx shipment with the guaranteed service code PO and the given service
\* description, shipped on the Monday and delivered on the Thursday of the same week
IsMondayToThursday(row, service_desc) ==
    /\ row["Carrier"] = "FedEx"
    /\ row["Service Type"] = "PO"
    /\ row["Service Description"] = service_desc
    /\ row["Shipment Date"] = Monday
    /\ row["Delivery Date"] = Thursday

\* the Late Delivery findings of FedEx PO shipments with the notes and the reason
LateFindingsWith(notes, dispute_reason) ==
    {k \in FindingsOfType("Late Delivery") :
        /\ findings[k].carrier = "FedEx"
        /\ findings[k].service_type = "PO"
        /\ findings[k].notes = notes
        /\ findings[k].dispute_reason = dispute_reason}

\* the rows of the main pool of the kind
MondayToThursdayRows(service_desc) ==
    {i \in 1..Len(main_audit_df) : IsMondayToThursday(main_audit_df[i], service_desc)}

NewYear == DaysFromCivil(2024, 1, 1)

\* notes that carry 2024-01-01 as the actual date, and notes that carry no actual date
NotesWithActual ==
    {"Expected: 2023-12-29, Actual: 2024-01-01", "Actual: 2024-01-01", "Actual: 1/1/2024"}
NotesWithoutActual == {"Expected: 2023-12-29", "Actual: 2024-02-30", NaN}

\* C10: a Late Delivery claim is classified by the date after 'Actual:' in its notes
\* alone: within_window up to 15 days after it, expired after more than 15 days,
\* missing_date when the notes carry no such date, whatever its Date field holds; an
\* actual date of 2024-01-01 is expired on 2024-02-01 and within the window on 2024-01-10.
C10_LateClaimsByActualDate ==
    pc = "filed" =>
        \A i \in 1..Len(actionable) :
            LET f == actionable[i] IN
            f.error_type = "Late Delivery" =>
                /\ f.notes \in NotesWithActual =>
                      status[i] = IF today - NewYear <= 15 THEN "within_window" ELSE "expired"
                /\ f.notes \in NotesWithoutActual => status[i] = "missing_date"
                /\ (f.notes \in NotesWithActual /\ today = DaysFromCivil(2024, 2, 1))
                      => status[i] = "expired"
                /\ (f.notes \in NotesWithActual /\ today = DaysFromCivil(2024, 1, 10))
                      => status[i] = "within_window"
                /\ f.notes \in NotesWithActual \cup NotesWithoutActual

\* C10 witness: a Late Delivery claim with a Date but no actual date in its notes was
\* classified missing_date, and one delivered 15 days before was within the window
C10_Witness ==
    /\ pc = "filed"
    /\ today = NewYear + 15
    /\ \E i, j \in 1..Len(actionable) :
          /\ actionable[i].error_type = "Late Delivery"
          /\ actionable[i].date = "2024-01-01"
          /\ actionable[i].notes = "Expected: 2023-12-29"
          /\ status[i] = "missing_date"
          /\ actionable[j].error_type = "Late Delivery"
          /\ actionable[j].notes \in NotesWithActual
          /\ status[j] = "within_window"

\* C11: every finding of the three detectors (late deliveries, duplicate tracking,
\* disputable surcharges, the per-record duplicate-surcharge findings and the
\* consolidated ones included) has a refund estimate of zero or more.
C11_RefundEstimateNonNegative ==
    \A k \in 1..Len(findings) : findings[k].refund_estimate >= 0

\* C12: run_full_audit never raises: whatever columns the table has (Total Charges,
\* Tracking Number, Carrier and the date columns may be missing), the call returns a
\* findings table and a summary.
C12_NoFatalErrorPath == pc # "raised"

\* the run has returned to the application
Returned == pc \in {"audited", "actionable", "filed"}

\* the findings the three core detectors give for the main pool
CoreDetectorFindings ==
    check_late_deliveries(main_audit_df) \o check_duplicate_tracking(main_audit_df)
    \o check_disputable_surcharges(main_audit_df)

\* C13: the misc detector is advisory and isolated: the findings of a run are those of
\* the three core detectors and total_savings is the sum of their refund estimates,
\* whether the misc detector classified rows, classified none or raised; every run
\* on the table returns the same findings and summary whatever the misc detector did;
\* when it raised, the run still returns and the misc outputs are empty.
C13_MiscDetectorIsolated ==
    /\ pc # "raised"
    /\ Returned =>
          /\ findings = CoreDetectorFindings
          /\ summary.total_savings = SumRefunds(CoreDetectorFindings)
          /\ \A i \in 1..Len(runs) :
                runs[i].findings = findings /\ runs[i].summary = summary
          /\ misc_charges.warning =>
                /\ misc_charges.queue = <<>>
                /\ misc_charges.by_category = {}
                /\ misc_charges.summary.count_misc = 0

\* C13 witness: two runs on a late shipment that the misc detector classifies as a
\* non-shipment charge: it classified the row in the first run and raised in the second,
\* and the Late Delivery finding was returned
C13_Witness ==
    /\ pc = "audited"
    /\ Len(runs) = 2
    /\ ~runs[1].misc_warning
    /\ misc_charges.warning
    /\ Len(findings) = 1
    /\ findings[1].error_type = "Late Delivery"
    /\ is_queued(normalize_row(df[1]))
    /\ summary.total_savings = Dollars(60)

RECURSIVE Pick(_, _, _)
\* the rows of t at the positions of S from k on, in the order of the table
Pick(t, S, k) ==
    IF k > Len(t) THEN <<>>
    ELSE (IF k \in S THEN <<t[k]>> ELSE <<>>) \o Pick(t, S, k + 1)

\* the tracking numbers of the rows of a pool
TrackingNumbersOf(pool) == {pool[i]["Tracking Number"] : i \in 1..Len(pool)}

\* C15: the rows of the input are split between the residential pool and the main
\* pool, each row in exactly one of them, and the summary counts the main pool only:
\* total_charges is the sum of Total Charges over its rows, total_shipments their
\* number, total_savings the sum of the refund estimates of the findings and
\* affected_shipments the number of distinct tracking numbers in the findings; no
\* finding is about a shipment that is in the residential pool only.
C15_PoolsAndSummary ==
    Returned =>
        /\ Len(residential_df) + Len(main_audit_df) = Len(df)
        /\ \E S \in SUBSET (1..Len(df)) :
              /\ Originals(residential_df) = Pick(df, S, 1)
              /\ Originals(main_audit_df) = Pick(df, (1..Len(df)) \ S, 1)
        /\ summary.total_charges
             = SumSeq([i \in 1..Len(main_audit_df) |-> main_audit_df[i]["Total Charges"]])
        /\ summary.total_shipments = Len(main_audit_df)
        /\ summary.total_savings
             = SumSeq([k \in 1..Len(findings) |-> findings[k].refund_estimate])
        /\ summary.affected_shipments
             = Cardinality({findings[k].tracking_number : k \in 1..Len(findings)})
        /\ \A k \in 1..Len(findings) :
              findings[k].tracking_number \in TrackingNumbersOf(main_audit_df)

\* C15 witness: of three rows, the home delivery with an address correction fee went to
\* the residential pool and the other two were audited: 55 dollars of charges, two
\* shipments, one of them with a finding
C15_Witness ==
    /\ pc = "audited"
    /\ Len(df) = 3
    /\ TrackingNumbersOf(residential_df) = {"R2"}
    /\ TrackingNumbersOf(main_audit_df) = {"B1", "A1"}
    /\ summary.total_charges = Dollars(55)
    /\ summary.total_shipments = 2
    /\ summary.affected_shipments = 2
    /\ summary.total_savings = Cents(850)

\* the lines of the main pool with the carrier (upper-cased) and the normalized
\* tracking number of the line first
SameCarrierAndTracking(first) ==
    {i \in 1..Len(main_audit_df) :
        /\ Upper(main_audit_df[i]["Carrier"]) = Upper(first["Carrier"])
        /\ _normalize_tracking(main_audit_df[i]["Tracking Number"])
             = _normalize_tracking(first["Tracking Number"])}

\* C16: lines are evaluated as one duplicate group only when they share the carrier and
\* the normalized tracking number: each Duplicate Tracking finding is about at least two
\* lines of one carrier, and lines of different carriers are never reported together.
C16_GroupsShareCarrier ==
    pc # "start" =>
        \A k \in FindingsOfType("Duplicate Tracking") :
            \E i \in 1..Len(main_audit_df) :
                /\ main_audit_df[i]["Tracking Number"] = findings[k].tracking_number
                /\ main_audit_df[i]["Carrier"] = findings[k].carrier
                /\ Cardinality(SameCarrierAndTracking(main_audit_df[i])) >= 2

\* the positions of the findings of the three core checks
CorePositions ==
    {k \in 1..Len(findings) :
        findings[k].error_type \in {"Late Delivery", "Duplicate Tracking",
                                    "Disputable Surcharge"}}

\* the row without the two claim columns
WithoutClaimColumns(row) ==
    [c \in DOMAIN row \ {"claim_status", "claim_priority"} |-> row[c]]

\* C17: the actionable rows are exactly the findings whose error type is Late Delivery,
\* Duplicate Tracking or Disputable Surcharge, in their order, each with Claim Status
\* 'Ready to Submit' and one Claim Priority: High iff the refund estimate is 50 dollars
\* or more, Low iff it is below 10 dollars, Medium otherwise.
C17_ActionableFindings ==
    pc \in {"actionable", "filed"} =>
        /\ [j \in 1..Len(actionable) |-> WithoutClaimColumns(actionable[j])]
             = Pick(findings, CorePositions, 1)
        /\ \A j \in 1..Len(actionable) :
              /\ actionable[j].claim_status = "Ready to Submit"
              /\ actionable[j].claim_priority \in {"High", "Medium", "Low"}
              /\ actionable[j].claim_priority = "High"
                    <=> actionable[j].refund_estimate >= Dollars(50)
              /\ actionable[j].claim_priority = "Low"
                    <=> actionable[j].refund_estimate < Dollars(10)

\* C17 witness: of a DIM Weight Overcharge finding and a Late Delivery finding of exactly
\* 50 dollars, only the second is actionable, with priority High
C17_Witness ==
    /\ pc = "actionable"
    /\ Len(findings) = 2
    /\ findings[1].error_type = "DIM Weight Overcharge"
    /\ findings[2].error_type = "Late Delivery"
    /\ findings[2].refund_estimate = Dollars(50)
    /\ Len(actionable) = 1
    /\ actionable[1].claim_priority = "High"

\* the five flag columns of a normalized row
FlagsOf(r) ==
    << r.is_service_blank, r.is_deliv_missing, r.is_paytype_misc, r.is_shipto_missing,
       r.is_nonstandard_tracking >>

\* the rows the misc detector normalized in the latest run
Normalized == misc_charges.normalized

\* a line with a service, a real delivery date, the pay type Package, a recipient and a
\* tracking number of 12 digits
IsPlainShipment(row) ==
    /\ row["Service Type"] = "PO"
    /\ row["Service Description"] = "FedEx Priority Overnight"
    /\ row["Delivery Date"] \in {Monday + 1, Monday + 3}
    /\ row["Pay Type"] = "Package"
    /\ row["Recipient Name"] = "ACME Corp"
    /\ row["Tracking Number"] = "123456789012"

\* C18: misc_score is the number of the five feature flags that hold, a number from 0
\* to 5; the row is classified as a misc non-shipment charge iff misc_score >= 3;
\* misc_confidence is misc_score / 5 (in hundredths); a line with a service, a real
\* delivery date, a non-misc pay type, a recipient and a 12-digit tracking number is
\* not classified.
C18_MiscScore ==
    /\ Len(Normalized) \in {0, Len(df)}
    /\ \A i \in 1..Len(Normalized) :
          LET r == Normalized[i] IN
          /\ r.misc_score = Cardinality({k \in 1..5 : FlagsOf(r)[k]})
          /\ r.misc_score \in 0..5
          /\ r.is_misc_non_shipment <=> r.misc_score >= 3
          /\ r.misc_confidence * 5 = r.misc_score * 100
          /\ IsPlainShipment(df[i]) => (r.misc_score = 0 /\ ~r.is_misc_non_shipment)
    /\ misc_charges.queue
         = Pick(Normalized, {i \in 1..Len(Normalized) : Normalized[i].misc_score >= 3}, 1)

\* C18 witness: a line with exactly three flags (pay type Other4, no recipient, a short
\* tracking number) was classified with confidence 0.6, and it is the queue
C18_Witness ==
    /\ Len(Normalized) = 1
    /\ FlagsOf(Normalized[1]) = <<FALSE, FALSE, TRUE, TRUE, TRUE>>
    /\ Normalized[1].misc_score = 3
    /\ Normalized[1].misc_confidence = 60
    /\ Normalized[1].is_misc_non_shipment
    /\ misc_charges.queue = Normalized

\* a text cell that is empty, NaN or white space
Blank(v) == v = NaN \/ Strip(v) = ""

\* the keys of the pay-type table
MiscPayTypes == {MISC_PAYTYPE_MAP[k][1] : k \in 1..Len(MISC_PAYTYPE_MAP)}

\* the text is made of exactly 12, 15 or 22 digits
IsStandardTracking(s) ==
    Len(s) \in {12, 15, 22} /\ \A i \in 1..Len(s) : CharAt(s, i) \in DigitSet

\* the flags of a line as documented, with pay_flag for the pay-type flag
DocumentedFlags(row, pay_flag) ==
    << Blank(row["Service Type"]) /\ Blank(row["Service Description"]),
       row["Delivery Date"] = NaT \/ CivilFromDays(row["Delivery Date"])[1] = 1900,
       pay_flag,
       Blank(row["Recipient Name"]),
       ~IsStandardTracking(IF row["Tracking Number"] = NaN THEN ""
                           ELSE Strip(row["Tracking Number"])) >>

\* the pay type is in the misc pay-type set
InMiscPayTypes(v) == v # NaN /\ Lower(Strip(v)) \in MiscPayTypes

\* the pay type holds the text other4
HoldsOther4(v) == v # NaN /\ Contains(Lower(v), "other4")

\* C19 as stated: the five flags are (1) service type and service description both
\* blank, (2) delivery date missing, a date in the year 1900 counting as missing,
\* (3) pay type blank or in the misc pay-type set, (4) recipient name missing,
\* (5) tracking number not made of exactly 12, 15 or 22 digits.
C19_FlagsWithMiscPayTypeSet ==
    \A i \in 1..Len(Normalized) :
        FlagsOf(Normalized[i])
          = DocumentedFlags(df[i], Blank(df[i]["Pay Type"]) \/ InMiscPayTypes(df[i]["Pay Type"]))

\* C19 amended: the same five flags, the third being: pay type blank or holding the
\* text 'other4' in any case; the other pay types of the pay-type table (other3,
\* adjustment, miscfee, paperinvoice, dutytax, addresscorrection) do not set it.
C19_FlagsWithOther4 ==
    \A i \in 1..Len(Normalized) :
        /\ FlagsOf(Normalized[i])
             = DocumentedFlags(df[i], Blank(df[i]["Pay Type"]) \/ HoldsOther4(df[i]["Pay Type"]))
        /\ (InMiscPayTypes(df[i]["Pay Type"]) /\ ~HoldsOther4(df[i]["Pay Type"]))
              => ~Normalized[i].is_paytype_misc

\* C19 witness: a line with the pay type Adjustment, delivered on 1900-01-01, with a
\* service and a recipient and a 12-digit tracking number: the delivery date counts as
\* missing and the pay type does not count as misc
C19_Witness ==
    /\ Len(Normalized) = 1
    /\ df[1]["Pay Type"] = "Adjustment"
    /\ df[1]["Delivery Date"] = Year1900
    /\ df[1]["Tracking Number"] = "123456789012"
    /\ FlagsOf(Normalized[1]) = <<FALSE, TRUE, FALSE, FALSE, FALSE>>

\* the description and the pay type of a line as the detector reads them
DescOf(row) == IF row["Charge Description"] = NaN THEN ""
               ELSE Lower(Strip(row["Charge Description"]))
PayTypeOf(row) == IF row["Pay Type"] = NaN THEN "" ELSE Lower(Strip(row["Pay Type"]))

\* the description keywords of the three categories; the duty, tax and VAT keywords
\* are the texts 'dutie', 'vat' and 'tax'
HasAddressCorrection(d) == Contains(d, "address correction")
HasDutyTaxKeyword(d) == Contains(d, "dutie") \/ Contains(d, "vat") \/ Contains(d, "tax")
HasPaperInvoice(d) == Contains(d, "paper") /\ Contains(d, "invoice")

\* the entries of the pay-type table whose key the pay type holds
PayTypeEntries(p) == {k \in 1..Len(MISC_PAYTYPE_MAP) : Contains(p, MISC_PAYTYPE_MAP[k][1])}

\* C20: every row has one category, by fixed precedence: a description with 'address
\* correction' is Address Correction; else one with a duty, tax or VAT keyword is
\* Duties/Taxes; else one with both 'paper' and 'invoice' is Paper Invoice Fee; only a
\* description without keyword takes the category of its pay type from the pay-type
\* table, and 'Misc Adjustment' when the table has none; 'Import VAT adjustment' is
\* Duties/Taxes whatever the pay type.
C20_CategoryPrecedence ==
    \A i \in 1..Len(Normalized) :
        LET d == DescOf(df[i])
            p == PayTypeOf(df[i])
            category == Normalized[i].misc_category
        IN  /\ HasAddressCorrection(d) => category = "Address Correction"
            /\ (~HasAddressCorrection(d) /\ HasDutyTaxKeyword(d)) => category = "Duties/Taxes"
            /\ (~HasAddressCorrection(d) /\ ~HasDutyTaxKeyword(d) /\ HasPaperInvoice(d))
                  => category = "Paper Invoice Fee"
            /\ (~HasAddressCorrection(d) /\ ~HasDutyTaxKeyword(d) /\ ~HasPaperInvoice(d))
                  => /\ PayTypeEntries(p) = {} => category = "Misc Adjustment"
                     /\ PayTypeEntries(p) # {} =>
                           \E k \in PayTypeEntries(p) :
                               /\ \A j \in PayTypeEntries(p) : k <= j
                               /\ category = MISC_PAYTYPE_MAP[k][2]
            /\ df[i]["Charge Description"] = "Import VAT adjustment"
                  => category = "Duties/Taxes"

\* C20 witness: the description 'Import VAT adjustment' with the pay type
\* AddressCorrection is Duties/Taxes
C20_Witness ==
    /\ Len(Normalized) = 1
    /\ df[1]["Charge Description"] = "Import VAT adjustment"
    /\ df[1]["Pay Type"] = "AddressCorrection"
    /\ Normalized[1].misc_category = "Duties/Taxes"

\* the business days (Monday to Friday) among the days a + 1 .. b
BusinessDaysIn(a, b) == Cardinality({d \in (a + 1)..b : weekday(d) < 5})

\* the service key of a text: upper case, spaces replaced by underscores
ServiceKey(text) == ReplaceChar(Upper(text), " ", "_")

\* the entries <<key, days>> of the lookup table
DeliveryEntries == {service_delivery_times[k] : k \in 1..Len(service_delivery_times)}

\* the expected days N of the row in the lookup table, by its service description or
\* else by its carrier and service type; 0 when the table has no entry
LookupDays(row) ==
    LET by_desc == {e \in DeliveryEntries :
                       e[1] = ServiceKey(GetStr(row, "Service Description"))}
        by_type == {e \in DeliveryEntries :
                       e[1] = Upper(GetStr(row, "Carrier")) \o "_"
                              \o ServiceKey(GetStr(row, "Service Type"))}
    IN  IF by_desc # {} THEN (CHOOSE e \in by_desc : TRUE)[2]
        ELSE IF by_type # {} THEN (CHOOSE e \in by_type : TRUE)[2]
        ELSE 0

IsFedEx(row) == Contains(Upper(GetStr(row, "Carrier")), "FEDEX")

IsWhitelisted(row) ==
    Upper(Strip(GetStr(row, "Service Type"))) \in fedex_guaranteed_service_codes

\* the ship date and the delivery date of the row, in either of their columns
ShipDateOf(row) ==
    IF "Shipment Date" \in DOMAIN row THEN row["Shipment Date"]
    ELSE row["Shipment Date (mm/dd/yyyy)"]

DeliveryDateOf(row) ==
    IF "Delivery Date" \in DOMAIN row THEN row["Delivery Date"]
    ELSE row["Shipment Delivery Date (mm/dd/yyyy)"]

\* the four conditions of a late delivery: the day before the delivery is at least N
\* business days after the ship date
ShouldBeLate(row) ==
    /\ ~IsFedEx(row) \/ IsWhitelisted(row)
    /\ LookupDays(row) > 0
    /\ ShipDateOf(row) # NaT /\ DeliveryDateOf(row) # NaT
    /\ BusinessDaysIn(ShipDateOf(row), DeliveryDateOf(row) - 1) >= LookupDays(row)

\* the positions of the late rows of the main pool
LatePositions == {i \in 1..Len(main_audit_df) : ShouldBeLate(main_audit_df[i])}

\* the Late Delivery findings, in the order of the findings list
LateDeliveryFindings == Pick(findings, FindingsOfType("Late Delivery"), 1)

\* C21: check_late_deliveries emits a Late Delivery finding for a record if and only if
\* the carrier is not FedEx or its service code is in the guaranteed whitelist, the
\* service has an expected-days entry N in the lookup table, both dates are present and
\* the delivery date is later than the ship date advanced by N business days, Saturdays
\* and Sundays never counted: the Late Delivery findings are one per such record, in the
\* order of the records, each with the ship date and the delivery date of its record;
\* a FedEx record with a non-whitelisted service code yields none.
C21_LateIffGuardsPass ==
    pc = "audited" =>
        /\ Len(LateDeliveryFindings) = Cardinality(LatePositions)
        /\ \A k \in 1..Len(LateDeliveryFindings) :
              LET row == Pick(main_audit_df, LatePositions, 1)[k]
                  f   == LateDeliveryFindings[k]
              IN  /\ f.date = strftime(ShipDateOf(row))
                  /\ Contains(f.notes, "Actual: " \o strftime(DeliveryDateOf(row)))
        /\ \A i \in 1..Len(main_audit_df) :
              (IsFedEx(main_audit_df[i]) /\ ~IsWhitelisted(main_audit_df[i]))
                  => i \notin LatePositions

\* C21 witness: a FedEx Priority Overnight shipment of a Friday delivered on the Tuesday
\* was reported, next to the same shipment billed under the code SG, which was not
C21_Witness ==
    /\ pc = "audited"
    /\ Len(main_audit_df) = 2
    /\ Original(main_audit_df[1]) = LateRow("FedEx", "SG", "FedEx Priority Overnight", Monday + 4, Monday + 8)
    /\ Original(main_audit_df[2]) = LateRow("FedEx", "PO", "FedEx Priority Overnight", Monday + 4, Monday + 8)
    /\ Len(LateDeliveryFindings) = 1
    /\ LateDeliveryFindings[1].notes = "Expected: 2024-03-11, Actual: 2024-03-12"
    /\ LateDeliveryFindings[1].dispute_reason = "Package delivered 1 day(s) late"

\* the amount of the first of the columns that the line has, 0 when it has none
OwnAmount(row, cols) ==
    IF \E k \in 1..Len(cols) : cols[k] \in DOMAIN row
    THEN row[cols[CHOOSE k \in 1..Len(cols) :
                     /\ cols[k] \in DOMAIN row
                     /\ \A j \in 1..(k - 1) : cols[j] \notin DOMAIN row]]
    ELSE 0

\* the line has amount columns beside its total
HasAmountColumns(row) ==
    \E k \in 1..Len(freight_candidates \o duty_candidates) :
        (freight_candidates \o duty_candidates)[k] \in DOMAIN row

OwnMisc(row) == OwnAmount(row, misc_candidates)
OwnDuty(row) == OwnAmount(row, duty_candidates)
OwnDiscount(row) == Abs(OwnAmount(row, discount_candidates))
OwnNet(row) == IF "Total Charges" \in DOMAIN row THEN row["Total Charges"] ELSE 0

\* the freight of the line: a line with a positive total and no amounts at all, in a
\* table without freight and duty columns, counts its total as freight
OwnFreight(row) ==
    IF /\ ~HasAmountColumns(row)
       /\ OwnMisc(row) = 0 /\ OwnNet(row) > 0
    THEN OwnNet(row)
    ELSE OwnAmount(row, freight_candidates)

\* freight + misc surcharges + discount as a positive amount
FreightLike(row) == OwnFreight(row) + OwnMisc(row) + OwnDiscount(row)

AboutZero(x) == Abs(x) < AMT_TOL

\* the class of the line by the rules as stated
StatedClass(row) ==
    IF FreightLike(row) > AMT_TOL /\ AboutZero(OwnDuty(row)) THEN "TRANSPORT"
    ELSE IF OwnDuty(row) > AMT_TOL /\ AboutZero(FreightLike(row)) THEN "DUTY_TAX"
    ELSE IF OwnNet(row) < 0 - AMT_TOL THEN "CREDIT_ADJUST"
    ELSE "MISC"

\* the class of the line by the rules of the amended claim
AmendedClass(row) ==
    IF FreightLike(row) > AMT_TOL /\ AboutZero(OwnDuty(row)) THEN "TRANSPORT"
    ELSE IF /\ Abs(OwnDuty(row)) > AMT_TOL
            /\ Abs(OwnFreight(row)) + Abs(OwnMisc(row)) < AMT_TOL THEN "DUTY_TAX"
    ELSE IF OwnNet(row) < 0 - AMT_TOL THEN "CREDIT_ADJUST"
    ELSE "MISC"

\* C22 as stated: every line of the main pool has one class, decided from its own
\* amounts: TRANSPORT when freight-like (freight + misc + discount as a positive amount)
\* > 0.01 and duty is about 0; DUTY_TAX when duty > 0.01 and freight-like is about 0;
\* CREDIT_ADJUST when net < -0.01; otherwise MISC.
C22_ClassByFreightLike ==
    pc = "audited" =>
        /\ Len(_class) = Len(main_audit_df)
        /\ \A i \in 1..Len(_class) : _class[i] = StatedClass(main_audit_df[i])

\* C22 amended: every line of the main pool has exactly one class, decided from its own
\* amounts, whatever the other lines are: TRANSPORT when freight + misc + |discount| >
\* 0.01 and |duty| < 0.01; else DUTY_TAX when |duty| > 0.01 and |freight| + |misc| <
\* 0.01 (the discount is not counted, and a negative duty counts); else CREDIT_ADJUST
\* when net < -0.01; otherwise MISC.
C22_ClassByOwnAmounts ==
    pc = "audited" =>
        /\ Len(_class) = Len(main_audit_df)
        /\ \A i \in 1..Len(_class) :
              /\ _class[i] = AmendedClass(main_audit_df[i])
              /\ _class[i] \in {"TRANSPORT", "DUTY_TAX", "CREDIT_ADJUST", "MISC"}

\* C22 witness: a freight line and a duty line with a discount share a tracking number;
\* the first is TRANSPORT, the second DUTY_TAX, and the pair is not reported as a
\* duplicate
C22_Witness ==
    /\ pc = "audited"
    /\ _class = <<"TRANSPORT", "DUTY_TAX">>
    /\ Original(main_audit_df[2]) = ClassRow("T1", 0, 0, Dollars(10), 0 - Dollars(5), Dollars(5))
    /\ key_tracking(main_audit_df[1]) = key_tracking(main_audit_df[2])
    /\ FindingsOfType("Duplicate Tracking") = {}

\* the normalized tracking numbers of the main pool, and the empty one
GroupKeys == {key_tracking(main_audit_df[i]) : i \in 1..Len(main_audit_df)} \cup {""}

\* the lines of the main pool with the normalized tracking number key
LinesOf(key) == {i \in 1..Len(main_audit_df) : key_tracking(main_audit_df[i]) = key}

\* those of them that have the class
LinesOfClass(key, class) == {i \in LinesOf(key) : _class[i] = class}

\* C23: check_duplicate_tracking emits at most one Duplicate Tracking finding per
\* group of lines with the same normalized tracking number, and none for a group with
\* exactly one TRANSPORT and one DUTY_TAX line, for a group with fewer than two
\* TRANSPORT lines, for a tracking number on a single line, or for lines whose
\* normalized tracking number is empty; every such finding is that of a group.
C23_AtMostOnePerGroup ==
    pc = "audited" =>
        /\ \A key \in GroupKeys :
              /\ Cardinality(DuplicateFindingsOf(key)) <= 1
              /\ ( \/ key = ""
                   \/ Cardinality(LinesOf(key)) <= 1
                   \/ Cardinality(LinesOfClass(key, "TRANSPORT")) < 2
                   \/ /\ Cardinality(LinesOfClass(key, "TRANSPORT")) = 1
                      /\ Cardinality(LinesOfClass(key, "DUTY_TAX")) = 1 )
                 => DuplicateFindingsOf(key) = {}
        /\ \A k \in FindingsOfType("Duplicate Tracking") :
              _normalize_tracking(findings[k].tracking_number) \in GroupKeys

\* C23 witness: two freight lines of T1 (one written t-1) and two freight lines whose
\* tracking number normalizes to the empty text: one finding, that of T1
C23_Witness ==
    /\ pc = "audited"
    /\ Len(main_audit_df) = 4
    /\ Cardinality(LinesOfClass("T1", "TRANSPORT")) = 2
    /\ Cardinality(LinesOfClass("", "TRANSPORT")) = 2
    /\ Cardinality(FindingsOfType("Duplicate Tracking")) = 1
    /\ Cardinality(DuplicateFindingsOf("T1")) = 1
    /\ \E i \in LinesOf("T1") : main_audit_df[i]["Tracking Number"] = "t-1"

WeightDescs == {"WEIGHT CORRECTION", "DIM WEIGHT ADJUSTMENT", "OVERWEIGHT CHARGE"}

\* the service type of the row names an international service
NamesInternational(row) ==
    \/ Contains(Upper(row["Service Type"]), "INTERNATIONAL")
    \/ Contains(Upper(row["Service Type"]), "INTL")

Divisor(row) == IF NamesInternational(row) THEN 166 ELSE 139

Volume(row) == row["Length"] * row["Width"] * row["Height"]

\* ceil(L*W*H / divisor), in pounds
CeilDimWeight(row) == (Volume(row) + Divisor(row) - 1) \div Divisor(row)

\* max(round(actual weight), ceil(L*W*H / divisor)), in pounds
BillableWeight(row) ==
    Max2(RoundHalfEven(row["Actual Weight"], 10), CeilDimWeight(row))

\* the billed weight exceeds the billable weight by more than 1 lb
BilledOver(row) == row["Billed Weight"] - 10 * BillableWeight(row) > 10

HasAllDimensions(row) == row["Length"] > 0 /\ row["Width"] > 0 /\ row["Height"] > 0

\* the Disputable Surcharge findings of the tracking number raised by the weight rules
WeightFindings(tracking) ==
    {k \in FindingsOfType("Disputable Surcharge") :
        /\ findings[k].tracking_number = tracking
        /\ \/ StartsWith(findings[k].dispute_reason, "Billed weight appears")
           \/ StartsWith(findings[k].dispute_reason, "Overweight charge but actual weight")}

\* the weight surcharge of the tracking number is flagged with the refund
FlaggedWeight(tracking, refund) ==
    \E k \in WeightFindings(tracking) : findings[k].refund_estimate = refund

\* C24 as stated: a Weight Correction, DIM Weight Adjustment or Overweight surcharge is
\* flagged with refund 80% when the billed weight exceeds max(round(actual weight),
\* ceil(L*W*H / divisor)) by more than 1 lb, divisor 166 for international services and
\* 139 otherwise; an Overweight charge is flagged as well when the actual weight is
\* below 150 lb.
C24_FlaggedWhenBilledOver ==
    pc = "audited" =>
        \A i \in 1..Len(parsed) : \A k \in 1..Len(parsed[i]) :
            LET e   == parsed[i][k]
                row == main_audit_df[i]
            IN  e.desc \in WeightDescs =>
                /\ BilledOver(row) => FlaggedWeight(row["Tracking Number"], (e.amount * 8) \div 10)
                /\ (e.desc = "OVERWEIGHT CHARGE" /\ row["Actual Weight"] < 1500)
                      => WeightFindings(row["Tracking Number"]) # {}

\* an Overweight charge on a record with an actual weight between 0 and 150 lb
IsLightOverweight(row, e) ==
    /\ e.desc = "OVERWEIGHT CHARGE"
    /\ 0 < row["Actual Weight"] /\ row["Actual Weight"] < 1500

\* a record with its three dimensions that is billed more than 1 lb over
IsMeasuredAndOver(row) == HasAllDimensions(row) /\ BilledOver(row)

\* the weight surcharges <<record, entry>> of the main pool that are to be flagged
WeightEntriesToFlag ==
    {p \in UNION {{<<i, k>> : k \in 1..Len(parsed[i])} : i \in 1..Len(parsed)} :
        /\ parsed[p[1]][p[2]].desc \in WeightDescs
        /\ \/ IsLightOverweight(main_audit_df[p[1]], parsed[p[1]][p[2]])
           \/ IsMeasuredAndOver(main_audit_df[p[1]])}

\* C24 amended: a Weight Correction or DIM Weight Adjustment surcharge is flagged, with
\* refund 80%, exactly when length, width and height are all recorded and the billed
\* weight exceeds max(round(actual weight), ceil(L*W*H / divisor)) by more than 1 lb,
\* divisor 166 when the service type text holds INTERNATIONAL or INTL and 139 otherwise
\* (139 for the code IP); an Overweight charge is flagged with refund 100% when
\* 0 < actual weight < 150 lb, else by the same rule with 80%; each such surcharge has
\* one finding and no other weight surcharge has any.
C24_FlaggedWhenMeasuredAndOver ==
    pc = "audited" =>
        /\ \A i \in 1..Len(parsed) :
              Cardinality(WeightFindings(main_audit_df[i]["Tracking Number"]))
                = Cardinality({p \in WeightEntriesToFlag :
                                 main_audit_df[p[1]]["Tracking Number"]
                                   = main_audit_df[i]["Tracking Number"]})
        /\ \A i \in 1..Len(parsed) : \A k \in 1..Len(parsed[i]) :
              LET e   == parsed[i][k]
                  row == main_audit_df[i]
                  tn  == row["Tracking Number"]
              IN  e.desc \in WeightDescs =>
                  /\ IsLightOverweight(row, e) => FlaggedWeight(tn, e.amount)
                  /\ (IsMeasuredAndOver(row) /\ ~IsLightOverweight(row, e))
                        => FlaggedWeight(tn, (e.amount * 8) \div 10)
                  /\ row["Service Type"] = "IP" => Divisor(row) = 139

\* C24 witness: a Weight Correction on a record without dimensions, billed 23.5 lb for
\* an actual 10 lb, was not flagged
C24_Witness ==
    /\ pc = "audited"
    /\ Len(main_audit_df) = 1
    /\ Original(main_audit_df[1])
         = WeightRow("T1", "PO", "Weight Correction: $10.00", <<0, 0, 0>>, 100, 235)
    /\ parsed[1][1].desc = "WEIGHT CORRECTION"
    /\ BilledOver(main_audit_df[1])
    /\ findings = <<>>

BlankDesc == "BLANK DESCRIPTION CHARGE"

\* the entries of the record i with the canonical label
EntriesOf(i, desc) == {k \in 1..Len(parsed[i]) : parsed[i][k].desc = desc}

\* the summed amount of the entries ks of the record i
RECURSIVE EntryTotal(_, _)
EntryTotal(i, ks) ==
    IF ks = {} THEN 0
    ELSE LET k == CHOOSE a \in ks : TRUE
         IN  parsed[i][k].amount + EntryTotal(i, ks \ {k})

\* the findings check_disputable_surcharges emitted for the tracking number of record i
EmittedOf(i) ==
    {k \in 1..Len(emitted) : emitted[k].tracking_number = main_audit_df[i]["Tracking Number"]}

\* those for a single blank charge, for repeated blank charges, and for a repeated label
SingleBlankFindings(i) ==
    {k \in EmittedOf(i) : StartsWith(emitted[k].dispute_reason, "Charge with no description")}

RepeatedBlankFindings(i) ==
    {k \in EmittedOf(i) : StartsWith(emitted[k].dispute_reason, "Multiple charges (")}

RepeatedLabelFindings(i, desc) ==
    {k \in EmittedOf(i) :
        /\ StartsWith(emitted[k].dispute_reason, "Duplicate surcharge appears")
        /\ StartsWith(emitted[k].notes, desc \o " billed")}

\* the segments of the detail text of record i that hold an amount and no label
UnlabelledSegments(i) ==
    {k \in 1..Len(parsed[i]) : parsed[i][k].label \in {"", ":", "-", "."}}

\* C25: within one record an amount with no label has the canonical label BLANK
\* DESCRIPTION CHARGE; a record with exactly one blank charge has one individual finding
\* for it, refunding 100%; a record with more than one has no individual blank finding
\* and a single finding refunding the total of its blank charges; any other canonical
\* label that occurs cnt > 1 times with the summed amount total has one
\* duplicate-surcharge finding with refund total - total/cnt, and a label that occurs
\* once has none.
C25_BlankAndRepeatedCharges ==
    pc = "audited" =>
        \A i \in 1..Len(parsed) :
            LET blanks == EntriesOf(i, BlankDesc) IN
            /\ UnlabelledSegments(i) = blanks
            /\ Cardinality(blanks) = 1 =>
                  /\ Cardinality(SingleBlankFindings(i)) = 1
                  /\ \A k \in SingleBlankFindings(i) :
                        emitted[k].refund_estimate = EntryTotal(i, blanks)
                  /\ RepeatedBlankFindings(i) = {}
            /\ Cardinality(blanks) > 1 =>
                  /\ SingleBlankFindings(i) = {}
                  /\ Cardinality(RepeatedBlankFindings(i)) = 1
                  /\ \A k \in RepeatedBlankFindings(i) :
                        emitted[k].refund_estimate = EntryTotal(i, blanks)
            /\ blanks = {} => SingleBlankFindings(i) \cup RepeatedBlankFindings(i) = {}
            /\ \A e \in 1..Len(parsed[i]) :
                  LET desc  == parsed[i][e].desc
                      cnt   == Cardinality(EntriesOf(i, desc))
                      total == EntryTotal(i, EntriesOf(i, desc))
                  IN  desc # BlankDesc =>
                      /\ Cardinality(RepeatedLabelFindings(i, desc)) = IF cnt > 1 THEN 1 ELSE 0
                      /\ \A k \in RepeatedLabelFindings(i, desc) :
                            /\ total % cnt = 0
                            /\ emitted[k].refund_estimate = total - total \div cnt

\* C25 witness: a record with two amounts without a label and an Address Correction
\* billed twice: no individual blank finding, one finding of 24 dollars for the blank
\* charges and one duplicate-surcharge finding of 6 dollars of 12
C25_Witness ==
    /\ pc = "audited"
    /\ Len(main_audit_df) = 1
    /\ main_audit_df[1]["Surcharge_Details"]
         = "$12.00 | $12.00 | Address Correction: $6.00 | Address Correction: $6.00"
    /\ SingleBlankFindings(1) = {}
    /\ \E k \in RepeatedBlankFindings(1) : emitted[k].refund_estimate = Dollars(24)
    /\ \E k \in RepeatedLabelFindings(1, "ADDRESS CORRECTION") :
          emitted[k].refund_estimate = Dollars(6)

\* the result of check_disputable_surcharges within the findings of the run
SurchargeResult == SelectSeq(findings, LAMBDA f : f.error_type = "Disputable Surcharge")

IsDuplicateSurcharge(f) == StartsWith(f.dispute_reason, "Duplicate surcharge")

\* the duplicate-surcharge findings of fs for a tracking number, in order
DuplicateSurchargesOf(fs, tracking) ==
    SelectSeq(fs, LAMBDA f : IsDuplicateSurcharge(f) /\ f.tracking_number = tracking)

RECURSIVE NotesJoined(_, _)
\* the notes of fs from position k on, separated by ' | '
NotesJoined(fs, k) ==
    IF k = Len(fs) THEN fs[k].notes ELSE fs[k].notes \o " | " \o NotesJoined(fs, k + 1)

RECURSIVE RefundTotal(_, _)
RefundTotal(fs, k) ==
    IF k > Len(fs) THEN 0 ELSE fs[k].refund_estimate + RefundTotal(fs, k + 1)

EmittedTrackings == {emitted[k].tracking_number : k \in 1..Len(emitted)}

\* C26: in the result of check_disputable_surcharges each tracking number has at most
\* one duplicate-surcharge finding; several duplicate-surcharge findings of one
\* tracking number are merged into one whose refund is the sum of theirs and whose
\* notes concatenate theirs; every other finding passes through unchanged, and the
\* total refund of the findings is preserved.
C26_OneDuplicateSurchargePerTracking ==
    pc = "audited" =>
        /\ \A tracking \in EmittedTrackings :
              LET before == DuplicateSurchargesOf(emitted, tracking)
                  after  == DuplicateSurchargesOf(SurchargeResult, tracking)
              IN  /\ Len(after) <= 1
                  /\ Len(before) = 1 => after = before
                  /\ Len(before) > 1 =>
                        /\ Len(after) = 1
                        /\ after[1].refund_estimate = RefundTotal(before, 1)
                        /\ after[1].notes = NotesJoined(before, 1)
        /\ SelectSeq(SurchargeResult, LAMBDA f : ~IsDuplicateSurcharge(f))
             = SelectSeq(emitted, LAMBDA f : ~IsDuplicateSurcharge(f))
        /\ \A k \in 1..Len(SurchargeResult) :
              SurchargeResult[k].tracking_number \in EmittedTrackings
        /\ RefundTotal(SurchargeResult, 1) = RefundTotal(emitted, 1)

\* C26 witness: a record with two labels billed twice each; the two duplicate-surcharge
\* findings of 6 and 9 dollars are merged into one of 15
C26_Witness ==
    /\ pc = "audited"
    /\ Len(DuplicateSurchargesOf(emitted, "T1")) = 2
    /\ DuplicateSurchargesOf(emitted, "T1")[1].refund_estimate = Dollars(6)
    /\ DuplicateSurchargesOf(emitted, "T1")[2].refund_estimate = Dollars(9)
    /\ Len(DuplicateSurchargesOf(SurchargeResult, "T1")) = 1
    /\ DuplicateSurchargesOf(SurchargeResult, "T1")[1].refund_estimate = Dollars(15)
    /\ Len(SurchargeResult) < Len(emitted)

\* the text of a service column of a record, '' when the column is absent or empty
ServiceCell(row, column) ==
    IF column \in DOMAIN row /\ row[column] # NaN THEN row[column] ELSE ""

NamesRmgr(text) == Contains(Upper(text), "RMGR")

\* the service type or the service description of the record names RMGR
IsRmgrByEitherColumn(row) ==
    NamesRmgr(ServiceCell(row, "Service Type"))
    \/ NamesRmgr(ServiceCell(row, "Service Description"))

\* the service type of the record names RMGR, or it is blank and the description does
IsRmgrByFirstColumn(row) ==
    IF Strip(ServiceCell(row, "Service Type")) # ""
    THEN NamesRmgr(ServiceCell(row, "Service Type"))
    ELSE NamesRmgr(ServiceCell(row, "Service Description"))

\* the records of the main pool with the tracking number
RecordsOf(tracking) ==
    {i \in 1..Len(main_audit_df) : main_audit_df[i]["Tracking Number"] = tracking}

\* check_disputable_surcharges has no finding for the tracking number, neither among
\* the findings it emitted nor in its result
NoSurchargeFinding(tracking) ==
    /\ \A k \in 1..Len(emitted) : emitted[k].tracking_number # tracking
    /\ \A k \in FindingsOfType("Disputable Surcharge") :
          findings[k].tracking_number # tracking

\* C27 as stated: check_disputable_surcharges emits no finding for a record whose
\* service type or service description names RMGR, whatever surcharges it carries.
C27_NoFindingWhenEitherNamesRmgr ==
    pc = "audited" =>
        \A tracking \in {"T1", "T2"} :
            /\ RecordsOf(tracking) # {}
            /\ \A i \in RecordsOf(tracking) : IsRmgrByEitherColumn(main_audit_df[i])
            => NoSurchargeFinding(tracking)

\* C27: check_disputable_surcharges emits no finding, individual or
\* duplicate-surcharge, for a record whose service type names RMGR in any letter case,
\* or whose service type is blank or absent and whose service description names RMGR,
\* whatever surcharges it carries.
C27_NoFindingWhenServiceTextNamesRmgr ==
    pc = "audited" =>
        \A tracking \in {"T1", "T2"} :
            /\ RecordsOf(tracking) # {}
            /\ \A i \in RecordsOf(tracking) : IsRmgrByFirstColumn(main_audit_df[i])
            => NoSurchargeFinding(tracking)

\* C27 witness: a record with service type 'FedEx rmgr' and a Return Fee billed twice
\* is in the main pool and has no surcharge finding
C27_Witness ==
    /\ pc = "audited"
    /\ Len(main_audit_df) = 1
    /\ ServiceCell(main_audit_df[1], "Service Type") = "FedEx rmgr"
    /\ main_audit_df[1]["Surcharge_Details"] = "Return Fee: $6.00|Return Fee: $6.00"
    /\ Len(row_surcharges(main_audit_df[1])) = 2
    /\ NoSurchargeFinding("T1")
    /\ findings = <<>>

FinalStatuses == {"within_window", "expired", "missing_date"}

\* the actionable rows the classifier gave the status s
RowsWithStatus(s) == {i \in 1..Len(actionable) : status[i] = s}

RECURSIVE RefundOfRows(_)
\* the summed refund estimate of the actionable rows rs
RefundOfRows(rs) ==
    IF rs = {} THEN 0
    ELSE LET i == CHOOSE a \in rs : TRUE
         IN  actionable[i].refund_estimate + RefundOfRows(rs \ {i})

\* C28: filter_by_filing_window gives every input finding exactly one final status
\* among within_window, expired and missing_date, none is left pending; the three
\* status counts of the summary are the numbers of findings with each status and add
\* up to total_original, and the three summed refund values add up to
\* total_original_value.  An empty input has no finding and an empty summary.
C28_StatusesPartitionTheFindings ==
    pc = "filed" =>
        /\ Len(status) = Len(actionable)
        /\ \A i \in 1..Len(actionable) : status[i] \in FinalStatuses
        /\ actionable = <<>> => filing_summary = <<>>
        /\ actionable # <<>> =>
              /\ \A s \in FinalStatuses :
                    filing_summary[s] = Cardinality(RowsWithStatus(s))
              /\ filing_summary.within_window_value = RefundOfRows(RowsWithStatus("within_window"))
              /\ filing_summary.expired_value = RefundOfRows(RowsWithStatus("expired"))
              /\ filing_summary.missing_date_value = RefundOfRows(RowsWithStatus("missing_date"))
              /\ filing_summary.total_original = Len(actionable)
              /\ filing_summary.total_original_value = RefundOfRows(1..Len(actionable))
              /\ filing_summary.within_window + filing_summary.expired
                   + filing_summary.missing_date = filing_summary.total_original
              /\ filing_summary.within_window_value + filing_summary.expired_value
                   + filing_summary.missing_date_value = filing_summary.total_original_value

\* C28 witness: two claims of 60 dollars each, one expired and one without a date,
\* none within the window: the counts 0, 1 and 1 add up to 2
C28_Witness ==
    /\ pc = "filed"
    /\ Len(actionable) = 2
    /\ status = <<"expired", "missing_date">>
    /\ filing_summary.within_window = 0
    /\ filing_summary.expired = 1
    /\ filing_summary.missing_date = 1
    /\ filing_summary.total_original = 2
    /\ filing_summary.expired_value = Dollars(60)
    /\ filing_summary.total_original_value = Dollars(120)

\* the rule of a claim by the precedence of the claim on its error type
FilingRule(f) ==
    LET error_type == Upper(f.error_type)
    IN  IF Contains(error_type, "LATE DELIVERY") THEN "late delivery"
        ELSE IF Contains(error_type, "LOST") \/ Contains(error_type, "DAMAGE")
        THEN "lost or damage"
        ELSE IF Contains(error_type, "DISPUTABLE SURCHARGE") \/ Contains(error_type, "DUPLICATE")
        THEN "billing dispute"
        ELSE "default"

FilingDeadline(rule) ==
    IF rule = "late delivery" THEN 15 ELSE IF rule = "lost or damage" THEN 60 ELSE 180

\* the dates the texts of the claims stand for
GenericDateOf(f) ==
    IF f.date = "2024-01-01" THEN DaysFromCivil(2024, 1, 1)
    ELSE IF f.date = "2023-07-19" THEN DaysFromCivil(2023, 7, 19) ELSE NaT

ActualDateOf(f) ==
    IF f.notes = "Expected: 2023-12-29, Actual: 2024-01-01" THEN DaysFromCivil(2024, 1, 1)
    ELSE NaT

ColumnDateOf(f, column) == IF column \in DOMAIN f THEN f[column] ELSE NaT

\* a, falling back to b
FallingBack(a, b) == IF a = NaT THEN b ELSE a

\* the reference date of the rule of the claim
FilingReference(f) ==
    IF FilingRule(f) = "late delivery" THEN ActualDateOf(f)
    ELSE IF FilingRule(f) = "lost or damage"
    THEN FallingBack(ColumnDateOf(f, "shipment_date"), GenericDateOf(f))
    ELSE FallingBack(ColumnDateOf(f, "invoice_date"), GenericDateOf(f))

\* C29: filter_by_filing_window picks the rule of a finding by fixed precedence on its
\* error type - Late Delivery, then Lost/Damage, then billing dispute (surcharge or
\* duplicate), then default - and applies that rule's reference date and deadline:
\* Late Delivery the actual delivery date of the notes with 15 days, Lost/Damage the
\* shipment date, falling back to the generic date, with 60 days, billing disputes and
\* the default the invoice date, falling back to the generic date, with 180 days.  The
\* status is within_window iff today - reference <= deadline, expired iff it is
\* greater, and missing_date iff no reference date exists.
C29_RuleByPrecedence ==
    pc = "filed" =>
        \A i \in 1..Len(actionable) :
            LET f         == actionable[i]
                reference == FilingReference(f)
                deadline  == FilingDeadline(FilingRule(f))
            IN  /\ status[i] = "missing_date" <=> reference = NaT
                /\ status[i] = "within_window" <=>
                      (reference # NaT /\ today - reference <= deadline)
                /\ status[i] = "expired" <=>
                      (reference # NaT /\ today - reference > deadline)

\* C29 witness: on 2024-01-17 a Lost Duplicate claim with no shipment date, an invoice
\* date 181 days back and the generic date 2023-07-19 is classified by the Lost/Damage
\* rule on the generic date and has expired; a Late Delivery - Damaged claim with a
\* shipment date and no actual date in its notes has no date
C29_Witness ==
    /\ pc = "filed"
    /\ today = DaysFromCivil(2024, 1, 17)
    /\ \E i \in 1..Len(actionable) :
          /\ actionable[i].error_type = "Lost Duplicate"
          /\ "shipment_date" \in DOMAIN actionable[i]
          /\ actionable[i].shipment_date = NaT
          /\ status[i] = "expired"
    /\ \E i \in 1..Len(actionable) :
          /\ actionable[i].error_type = "Late Delivery - Damaged"
          /\ actionable[i].shipment_date = DaysFromCivil(2023, 11, 17)
          /\ status[i] = "missing_date"

LateClaims == {i \in 1..Len(actionable) : actionable[i].error_type = "Late Delivery"}

\* the delivery dates of the main-pool records with the tracking number
DeliveryDatesOf(tracking) ==
    { main_audit_df[k]["Delivery Date"] :
        k \in {j \in 1..Len(main_audit_df) : main_audit_df[j]["Tracking Number"] = tracking} }

\* C30: every Late Delivery finding of check_late_deliveries passes through
\* get_actionable_errors and carries notes from which filter_by_filing_window extracts
\* the actual delivery date of its record, so the classifier gives it within_window
\* (15 days or fewer since the delivery) or expired, and never missing_date.
C30_LateClaimsHaveAnActualDate ==
    pc = "filed" =>
        /\ Cardinality(LateClaims) = Cardinality(FindingsOfType("Late Delivery"))
        /\ \A i \in LateClaims :
              /\ status[i] \in {"within_window", "expired"}
              /\ \E delivery \in DeliveryDatesOf(actionable[i].tracking_number) :
                    /\ delivery # NaT
                    /\ extract_actual_date(actionable[i].notes) = delivery
                    /\ status[i] = "within_window" <=> today - delivery <= 15

\* C30 witness: on 2024-01-17 the claim of a shipment delivered late on 2024-01-01 has
\* expired and the claim of one delivered late on 2024-01-02 is within the window
C30_Witness ==
    /\ pc = "filed"
    /\ today = DaysFromCivil(2024, 1, 17)
    /\ Len(main_audit_df) = 2
    /\ \E i, j \in LateClaims :
          /\ actionable[i].tracking_number = "T2"
          /\ actionable[i].notes = "Expected: 2023-12-29, Actual: 2024-01-01"
          /\ status[i] = "expired"
          /\ actionable[j].tracking_number = "T3"
          /\ actionable[j].notes = "Expected: 2023-12-29, Actual: 2024-01-02"
          /\ status[j] = "within_window"

===========================================================================
